---- MODULE Spec2Model ----
(***************************************************************************)
(* A model of the Redis clone of this repository: the RESP codec           *)
(* (parser.rs), the stream log (stream.rs), the key-value engine (db.rs),  *)
(* the per-connection state machine (connection_handler.rs) and the event  *)
(* loop (main.rs).  Each part has its own specification over the shared    *)
(* variables; a part that a specification does not exercise stays idle.    *)
(***************************************************************************)
EXTENDS Integers, Sequences, FiniteSets, TLC

VARIABLES
    rv,         \* codec: the RedisValue that is serialised
    follow,     \* codec: the value whose serialisation follows rv on the wire
    parsed,     \* codec: what parse_redis_value returned for the input
    stream,     \* stream log: Stream.entries, in storage order
    unix_ms,    \* SystemTime::now() in milliseconds since the epoch
    xadded,     \* stream log: the outcome of the last append
    store,      \* InnerRedisDb.store: key -> DbValue
    instant,    \* Instant::now(), the monotonic clock, in milliseconds
    answer,     \* key-value engine: the last operation and what it returned
    written,    \* key-value engine: per key, the last write that stored it anew
    state,      \* RedisDb.state
    info,       \* RedisDb.info
    ongoing_transacations,  \* RedisDb.ongoing_transacations: token -> queued commands
    replicas,   \* RedisDb.replicas
    processed_bytes,        \* RedisDb.processed_bytes
    token_track,            \* RedisDb.token_track
    connections,            \* main: the tokens of the map of client connections
    waiting_connection,     \* RedisDb.waiting_connection
    sock,       \* per token with a socket: "open", or "reset" once the peer reset it
    exited,     \* "running", or how the process ended: "returned" or "panicked"
    since_poll, \* the time that passed since the end of the last loop iteration
    to_master,  \* replica: the handshake messages written to the master so far
    overflow_checks,        \* the build: whether an arithmetic overflow panics (else it wraps)
    ev          \* what the last event did

codecVars == <<rv, follow, parsed>>
streamVars == <<stream, unix_ms, xadded>>
dbVars == <<store, instant, answer, written>>

serverVars == <<state, info, ongoing_transacations, replicas, processed_bytes, token_track,
                connections, waiting_connection, sock, exited, since_poll, to_master,
                overflow_checks, ev>>

vars == <<codecVars, streamVars, dbVars, serverVars>>

(***************************************************************************)
(* Bounds of the model                                                     *)
(***************************************************************************)
MaxTextLen == 2
MaxInt == 10
MaxArrayLen == 2
MaxTs == 2
MaxSeq == 3
MaxClock == 2
MaxEntries == 3
MaxPx == 2
MaxInstant == 3
MaxCounter == 8

SeqsUpTo(S, n) == UNION {[1..k -> S] : k \in 0..n}

(***************************************************************************)
(* parser.rs: RedisValue and its Display                                   *)
(***************************************************************************)
CRLF == <<"CR", "LF">>

Digits == <<"0", "1", "2", "3", "4", "5", "6", "7", "8", "9">>

IsDigit(c) == \E d \in 1..10 : Digits[d] = c

DigitOf(c) == (CHOOSE d \in 1..10 : Digits[d] = c) - 1

\* One RedisValue; the fields a variant does not have are left empty.
RedisValue(t, n, s, items) == [t |-> t, n |-> n, s |-> s, items |-> items]

SimpleString(s) == RedisValue("SimpleString", 0, s, <<>>)
SimpleError(s) == RedisValue("SimpleError", 0, s, <<>>)
Integer(n) == RedisValue("Integer", n, <<>>, <<>>)
BulkString(size, s) == RedisValue("BulkString", size, s, <<>>)
NullBulkString == RedisValue("NullBulkString", 0, <<>>, <<>>)
Array(size, items) == RedisValue("Array", size, <<>>, items)

bulkstring_from(s) == BulkString(Len(s), s)

RECURSIVE NatToString(_)
NatToString(n) ==
    IF n < 10 THEN <<Digits[n + 1]>>
    ELSE NatToString(n \div 10) \o <<Digits[(n % 10) + 1]>>

\* "{}" of an i64 or a usize
IntToString(n) == IF n < 0 THEN <<"-">> \o NatToString(-n) ELSE NatToString(n)

RECURSIVE Display(_)
RECURSIVE DisplayAll(_)
DisplayAll(items) ==
    IF items = <<>> THEN <<>> ELSE Display(Head(items)) \o DisplayAll(Tail(items))

Display(v) ==
    CASE v.t = "SimpleString" -> <<"+">> \o v.s \o CRLF
      [] v.t = "SimpleError" -> <<"-">> \o v.s \o CRLF
      [] v.t = "Integer" -> <<":">> \o (IF v.s = <<>> THEN IntToString(v.n) ELSE v.s) \o CRLF
      [] v.t = "BulkString" -> <<"$">> \o IntToString(v.n) \o CRLF \o v.s \o CRLF
      [] v.t = "NullBulkString" -> <<"$", "-", "1">> \o CRLF
      [] v.t = "Array" -> <<"*">> \o IntToString(v.n) \o CRLF \o DisplayAll(v.items)

(***************************************************************************)
(* parser.rs: parse_redis_value and its helpers.  A result is              *)
(* [kind, rest, val]: kind "ok" (val parsed, rest left), "err" (a nom      *)
(* error) or "panic" (the todo!() of an unknown type byte).                *)
(***************************************************************************)
NoVal == NullBulkString

POk(rest, val) == [kind |-> "ok", rest |-> rest, val |-> val]
PErr == [kind |-> "err", rest |-> <<>>, val |-> NoVal]
PPanic == [kind |-> "panic", rest |-> <<>>, val |-> NoVal]

Drop(s, k) == SubSeq(s, k + 1, Len(s))

\* tag("\r\n")
parse_crlf(input) ==
    IF Len(input) >= 2 /\ input[1] = "CR" /\ input[2] = "LF"
    THEN POk(Drop(input, 2), CRLF)
    ELSE PErr

RECURSIVE DigitRun(_)
DigitRun(input) ==
    IF input # <<>> /\ IsDigit(Head(input)) THEN 1 + DigitRun(Tail(input)) ELSE 0

RECURSIVE DigitsValue(_, _)
DigitsValue(ds, acc) ==
    IF ds = <<>> THEN acc ELSE DigitsValue(Tail(ds), 10 * acc + DigitOf(Head(ds)))

\* terminated(complete::i64, parse_crlf): an optional sign, at least one digit, CRLF
parse_redis_int(input) ==
    LET signed == input # <<>> /\ Head(input) \in {"+", "-"}
        Number(body, k) ==
            LET mag == DigitsValue(SubSeq(body, 1, k), 0)
                Terminated(end) ==
                    IF k = 0 \/ end.kind # "ok" THEN PErr
                    ELSE POk(end.rest, IF signed /\ Head(input) = "-" THEN -mag ELSE mag)
            IN  Terminated(parse_crlf(Drop(body, k)))
        Signed(body) == Number(body, DigitRun(body))
    IN  Signed(IF signed THEN Tail(input) ELSE input)

RECURSIVE CrlfPosition(_, _)
CrlfPosition(input, i) ==
    IF i + 1 > Len(input) THEN 0
    ELSE IF input[i] = "CR" /\ input[i + 1] = "LF" THEN i
    ELSE CrlfPosition(input, i + 1)

\* terminated(take_until("\r\n"), parse_crlf)
parse_until_crlf_keeps_terminator(input) ==
    LET Until(p) == IF p = 0 THEN PErr ELSE POk(Drop(input, p - 1), SubSeq(input, 1, p - 1))
    IN  Until(CrlfPosition(input, 1))

parse_until_crlf(input) ==
    LET Until(p) == IF p = 0 THEN PErr ELSE POk(Drop(input, p + 1), SubSeq(input, 1, p - 1))
    IN  Until(CrlfPosition(input, 1))

\* take(length) then parse_crlf
parse_bulkstring_word(input, length) ==
    IF Len(input) < length THEN PErr
    ELSE LET Terminated(end) ==
                 IF end.kind # "ok" THEN PErr ELSE POk(end.rest, SubSeq(input, 1, length))
         IN  Terminated(parse_crlf(Drop(input, length)))

RECURSIVE parse_redis_value(_)
RECURSIVE parse_elements(_, _, _)
\* the for loop of the '*' arm: left elements still to parse, acc those parsed
parse_elements(input, left, acc) ==
    IF left = 0 THEN POk(input, acc)
    ELSE LET Element(r) ==
                 IF r.kind # "ok" THEN [r EXCEPT !.rest = <<>>]
                 ELSE parse_elements(r.rest, left - 1, Append(acc, r.val))
         IN  Element(parse_redis_value(input))

parse_redis_value(input) ==
    IF input = <<>> THEN PErr
    ELSE LET symbol == Head(input)
             after == Tail(input)
             Line(r, variant) ==
                 IF r.kind # "ok" THEN PErr
                 ELSE POk(r.rest, IF variant = "+" THEN SimpleString(r.val)
                                  ELSE SimpleError(r.val))
             Number(r) == IF r.kind # "ok" THEN PErr ELSE POk(r.rest, Integer(r.val))
             Word(w, length) ==
                 IF w.kind # "ok" THEN PErr ELSE POk(w.rest, BulkString(length, w.val))
             Bulk(r) ==
                 IF r.kind # "ok" THEN PErr
                 ELSE IF r.val = -1 THEN POk(r.rest, NullBulkString)
                 \* a negative length cast to usize exceeds any input
                 ELSE IF r.val < 0 THEN PErr
                 ELSE Word(parse_bulkstring_word(r.rest, r.val), r.val)
             Elements(e, count) ==
                 IF e.kind # "ok" THEN [e EXCEPT !.val = NoVal]
                 ELSE POk(e.rest, Array(count, e.val))
             Many(r) ==
                 IF r.kind # "ok" THEN PErr
                 \* a negative count cast to usize runs the input dry
                 ELSE IF r.val < 0 THEN PErr
                 ELSE Elements(parse_elements(r.rest, r.val, <<>>), r.val)
         IN  CASE symbol = "+" -> Line(parse_until_crlf(after), symbol)
               [] symbol = "-" -> Line(parse_until_crlf(after), symbol)
               [] symbol = ":" -> Number(parse_redis_int(after))
               [] symbol = "$" -> Bulk(parse_redis_int(after))
               [] symbol = "*" -> Many(parse_redis_int(after))
               [] OTHER -> PPanic

(***************************************************************************)
(* The well-formed values the codec specification draws from               *)
(***************************************************************************)
LineChars == {"a", "+"}
BulkChars == {"a", "CR", "LF"}

Leaves ==
    {SimpleString(s) : s \in SeqsUpTo(LineChars, MaxTextLen)}
    \cup {SimpleError(s) : s \in SeqsUpTo(LineChars, MaxTextLen)}
    \cup {Integer(n) : n \in (0 - MaxInt)..MaxInt}
    \cup {bulkstring_from(s) : s \in SeqsUpTo(BulkChars, MaxTextLen)}
    \cup {NullBulkString}

ElemLeaves ==
    {SimpleString(<<"a">>), SimpleError(<<>>), Integer(0 - MaxInt),
     bulkstring_from(<<>>), bulkstring_from(CRLF), NullBulkString}

ArraysOver(S, n) == {Array(Len(items), items) : items \in SeqsUpTo(S, n)}

WellFormed == Leaves \cup ArraysOver(ElemLeaves \cup ArraysOver(ElemLeaves, 1), MaxArrayLen)

Followers == ElemLeaves \cup {Array(1, <<Integer(MaxInt)>>)}

(***************************************************************************)
(* stream.rs: StreamId, Stream::next_stream_id, create_stream_id, xadd     *)
(***************************************************************************)
StreamId(ts, seq) == [timestamp_ms |-> ts, seq_number |-> seq]

\* #[derive(PartialOrd, Ord)]: by timestamp_ms, then by seq_number
IdLess(a, b) ==
    \/ a.timestamp_ms < b.timestamp_ms
    \/ a.timestamp_ms = b.timestamp_ms /\ a.seq_number < b.seq_number

IdLessEq(a, b) == a = b \/ IdLess(a, b)

\* impl Display for StreamId
IdToString(id) == NatToString(id.timestamp_ms) \o <<"-">> \o NatToString(id.seq_number)

StreamEntry(id, fields) == [stream_id |-> id, store |-> fields]

get_last_stream_id(entries) ==
    IF entries = <<>> THEN StreamId(0, 0) ELSE entries[Len(entries)].stream_id

next_stream_id(entries, now) ==
    LET last == get_last_stream_id(entries)
    IN  IF now > last.timestamp_ms THEN StreamId(now, 0)
        ELSE StreamId(last.timestamp_ms, last.timestamp_ms + 1)

\* str::parse::<u64>: an optional '+', then digits only
ParseU64(s) ==
    LET body == IF s # <<>> /\ Head(s) = "+" THEN Tail(s) ELSE s
    IN  IF body = <<>> \/ DigitRun(body) # Len(body) THEN [ok |-> FALSE, val |-> 0]
        ELSE [ok |-> TRUE, val |-> DigitsValue(body, 0)]

RECURSIVE DashPosition(_, _)
DashPosition(s, i) ==
    IF i > Len(s) THEN 0 ELSE IF s[i] = "-" THEN i ELSE DashPosition(s, i + 1)

IdOk(id) == [ok |-> TRUE, id |-> id]
IdErr == [ok |-> FALSE, id |-> StreamId(0, 0)]

TsDigitsLimit == 13

create_stream_id(entries, value, now) ==
    IF value = <<"*">> THEN IdOk(next_stream_id(entries, now))
    ELSE LET Sequenced(t, q) == IF q.ok THEN IdOk(StreamId(t.val, q.val)) ELSE IdErr
             Split(p, ts, seq, t, last) ==
                 IF Len(ts) > TsDigitsLimit \/ ~t.ok THEN IdErr
                 ELSE IF p = 0 THEN IdOk(StreamId(t.val, 0))
                 ELSE IF seq = <<"*">> THEN
                        IdOk(StreamId(t.val,
                                      IF last.timestamp_ms = t.val THEN last.seq_number + 1
                                      ELSE IF t.val = 0 THEN 1 ELSE 0))
                 ELSE Sequenced(t, ParseU64(seq))
             At(p) ==
                 Split(p, IF p = 0 THEN value ELSE SubSeq(value, 1, p - 1),
                       IF p = 0 THEN <<>> ELSE Drop(value, p),
                       ParseU64(IF p = 0 THEN value ELSE SubSeq(value, 1, p - 1)),
                       get_last_stream_id(entries))
         IN  At(DashPosition(value, 1))

\* the outcome of an append: the entries afterwards, the id, and for a rejected
\* id the `got` of Error::InvalidStreamId
XaddOk(entries, id) == [kind |-> "ok", entries |-> entries, id |-> id, got |-> <<>>]
XaddInvalidStreamId(entries, id) ==
    [kind |-> "InvalidStreamId", entries |-> entries, id |-> id, got |-> IdToString(id)]
XaddErr(entries) == [kind |-> "err", entries |-> entries, id |-> StreamId(0, 0), got |-> <<>>]

\* an append that refuses only the ids below the last one
stream_xadd_some_accepts_equal(entries, fields, id) ==
    IF IdLess(id, get_last_stream_id(entries)) THEN XaddInvalidStreamId(entries, id)
    ELSE XaddOk(Append(entries, StreamEntry(id, fields)), id)

\* Stream::xadd(store, Some(stream_id))
stream_xadd_some(entries, fields, id) ==
    IF IdLessEq(id, get_last_stream_id(entries)) THEN XaddInvalidStreamId(entries, id)
    ELSE XaddOk(Append(entries, StreamEntry(id, fields)), id)

\* Stream::xadd(store, None)
stream_xadd_none(entries, fields, now) ==
    LET Push(id) == XaddOk(Append(entries, StreamEntry(id, fields)), id)
    IN  Push(next_stream_id(entries, now))

\* RedisDb::xadd on the stream it found or created (db.rs 210-214)
db_stream_xadd(entries, value, fields, now) ==
    LET Created(c) ==
            IF ~c.ok THEN XaddErr(entries) ELSE stream_xadd_some(entries, fields, c.id)
    IN  Created(create_stream_id(entries, value, now))

\* position(|x| x.stream_id >= id): the first such index, 0 for None
RECURSIVE position_not_below(_, _, _)
position_not_below(entries, id, i) ==
    IF i > Len(entries) THEN 0
    ELSE IF IdLessEq(id, entries[i].stream_id) THEN i
    ELSE position_not_below(entries, id, i + 1)

\* position(|x| x.stream_id > id): the first such index, 0 for None
RECURSIVE position_above(_, _, _)
position_above(entries, id, i) ==
    IF i > Len(entries) THEN 0
    ELSE IF IdLess(id, entries[i].stream_id) THEN i
    ELSE position_above(entries, id, i + 1)

RangeOk(items) == [ok |-> TRUE, items |-> items]
RangeErr == [ok |-> FALSE, items |-> <<>>]

\* Stream::xrange: the pairs (id as text, fields) from start_index to end_index
stream_xrange(entries, stream_id_start, stream_id_end, now) ==
    LET Slice(start_index, end_index) ==
            IF start_index = 0 THEN RangeOk(<<>>)
            ELSE RangeOk([k \in 1..(IF end_index < start_index THEN 0
                                    ELSE end_index - start_index) |->
                            <<IdToString(entries[start_index + k - 1].stream_id),
                              entries[start_index + k - 1].store>>])
        \* position(..).unwrap_or(len), as the index after the last entry taken
        Until(p) == IF p = 0 THEN Len(entries) + 1 ELSE p
        Ended(start_index, e) ==
            IF ~e.ok THEN RangeErr
            ELSE Slice(start_index,
                       Until(position_above(entries, e.id, 1)))
        End(start_index) ==
            IF stream_id_end = <<"+">> THEN Slice(start_index, Len(entries) + 1)
            ELSE Ended(start_index, create_stream_id(entries, stream_id_end, now))
        Started(c) ==
            IF ~c.ok THEN RangeErr
            ELSE End(position_not_below(entries, c.id, 1))
    IN  IF entries = <<>> THEN RangeOk(<<>>)
        ELSE IF stream_id_start = <<"-">> THEN End(1)
        ELSE Started(create_stream_id(entries, stream_id_start, now))

(***************************************************************************)
(* db.rs: DbValue, RedisDb::set, get, incr                                 *)
(***************************************************************************)
NoInstant == [some |-> FALSE, at |-> 0]
SomeInstant(t) == [some |-> TRUE, at |-> t]

NoPx == [some |-> FALSE, ms |-> 0]
SomePx(ms) == [some |-> TRUE, ms |-> ms]

StringValue(s) == [type |-> "String", s |-> s, entries |-> <<>>]
StreamValue(entries) == [type |-> "Stream", s |-> <<>>, entries |-> entries]

DbValue(value, expires_at) == [value |-> value, expires_at |-> expires_at]

\* DbValue::new: expires_at = Instant::now() + expires_in
DbValue_new(value, px, now) ==
    DbValue(value, IF px.some THEN SomeInstant(now + px.ms) ELSE NoInstant)

is_expired_strictly_after(db_value, now) ==
    db_value.expires_at.some /\ now > db_value.expires_at.at

is_expired(db_value, now) ==
    db_value.expires_at.some /\ now >= db_value.expires_at.at

Insert(st, key, db_value) ==
    [k \in DOMAIN st \cup {key} |-> IF k = key THEN db_value ELSE st[k]]

Remove(st, key) == [k \in DOMAIN st \ {key} |-> st[k]]

db_set(st, key, value, px, now) == Insert(st, key, DbValue_new(value, px, now))

NoneValue == [some |-> FALSE, value |-> StringValue(<<>>)]
SomeValue(v) == [some |-> TRUE, value |-> v]

\* RedisDb::get: the store afterwards and the Option<ValueType> returned
db_get(st, key, now) ==
    IF key \notin DOMAIN st THEN [store |-> st, val |-> NoneValue]
    ELSE IF is_expired(st[key], now) THEN [store |-> Remove(st, key), val |-> NoneValue]
    ELSE [store |-> st, val |-> SomeValue(st[key].value)]

\* an i64 as a sign and the decimal digits of its magnitude (no leading zero)
I64(neg, mag) == [neg |-> neg, mag |-> mag]

\* the digits of i64::MAX and of the magnitude of i64::MIN
I64_MAX == <<"9", "2", "2", "3", "3", "7", "2", "0", "3", "6", "8", "5", "4", "7", "7", "5", "8", "0", "7">>
I64_MIN == <<"9", "2", "2", "3", "3", "7", "2", "0", "3", "6", "8", "5", "4", "7", "7", "5", "8", "0", "8">>

RECURSIVE StripZeros(_)
StripZeros(ds) == IF Len(ds) > 1 /\ Head(ds) = "0" THEN StripZeros(Tail(ds)) ELSE ds

RECURSIVE DigitsLess(_, _)
DigitsLess(a, b) ==
    IF a = <<>> THEN FALSE
    ELSE IF Head(a) # Head(b) THEN DigitOf(Head(a)) < DigitOf(Head(b))
    ELSE DigitsLess(Tail(a), Tail(b))

MagLess(a, b) == Len(a) < Len(b) \/ (Len(a) = Len(b) /\ DigitsLess(a, b))

RECURSIVE MagSucc(_)
MagSucc(ds) ==
    IF ds = <<>> THEN <<"1">>
    ELSE IF ds[Len(ds)] = "9" THEN MagSucc(SubSeq(ds, 1, Len(ds) - 1)) \o <<"0">>
    ELSE SubSeq(ds, 1, Len(ds) - 1) \o <<Digits[DigitOf(ds[Len(ds)]) + 2]>>

RECURSIVE MagPred(_)
MagPred(ds) ==
    IF ds[Len(ds)] = "0" THEN MagPred(SubSeq(ds, 1, Len(ds) - 1)) \o <<"9">>
    ELSE SubSeq(ds, 1, Len(ds) - 1) \o <<Digits[DigitOf(ds[Len(ds)])]>>

\* x + 1 for an i64 below i64::MAX
I64Succ(x) ==
    IF x.neg
    THEN LET Lowered(m) == I64(m # <<"0">>, m) IN Lowered(StripZeros(MagPred(x.mag)))
    ELSE I64(FALSE, MagSucc(x.mag))

\* format!("{}", i64)
I64ToString(x) == (IF x.neg THEN <<"-">> ELSE <<>>) \o x.mag

\* str::parse::<i64>: an optional sign, then digits only, within the range of i64
ParseI64(s) ==
    LET signed == s # <<>> /\ Head(s) \in {"+", "-"}
        neg == s # <<>> /\ Head(s) = "-"
        body == IF signed THEN Tail(s) ELSE s
        Ranged(mag) ==
            IF MagLess(IF neg THEN I64_MIN ELSE I64_MAX, mag)
            THEN [ok |-> FALSE, val |-> I64(FALSE, <<"0">>)]
            ELSE [ok |-> TRUE, val |-> I64(neg /\ mag # <<"0">>, mag)]
    IN  IF body = <<>> \/ DigitRun(body) # Len(body)
        THEN [ok |-> FALSE, val |-> I64(FALSE, <<"0">>)]
        ELSE Ranged(StripZeros(body))

\* RedisDb::incr: the store afterwards and Ok(n), Err, or the panic of `+ 1` on
\* i64::MAX in a build with overflow checks (without them the sum wraps to i64::MIN)
db_incr(st, key, checks) ==
    LET Unchanged(ok, panic) ==
            [store |-> st, ok |-> ok, panic |-> panic, val |-> I64(FALSE, <<"0">>)]
        Stored(incremented) ==
            [store |-> [st EXCEPT ![key].value = StringValue(I64ToString(incremented))],
             ok |-> TRUE, panic |-> FALSE, val |-> incremented]
        Incremented(n) ==
            IF ~n.ok THEN Unchanged(FALSE, FALSE)
            ELSE IF n.val = I64(FALSE, I64_MAX)
            THEN IF checks THEN Unchanged(FALSE, TRUE) ELSE Stored(I64(TRUE, I64_MIN))
            ELSE Stored(I64Succ(n.val))
    IN  IF key \notin DOMAIN st
        THEN [store |-> Insert(st, key, DbValue(StringValue(<<"1">>), NoInstant)),
              ok |-> TRUE, panic |-> FALSE, val |-> I64(FALSE, <<"1">>)]
        ELSE IF st[key].value.type = "String"
        THEN Incremented(ParseI64(st[key].value.s))
        ELSE Unchanged(FALSE, FALSE)

(***************************************************************************)
(* The words of the protocol, as the characters they are made of           *)
(***************************************************************************)
W_PING == <<"P", "I", "N", "G">>
W_ECHO == <<"E", "C", "H", "O">>
W_SET == <<"S", "E", "T">>
W_GET == <<"G", "E", "T">>
W_INCR == <<"I", "N", "C", "R">>
W_INFO == <<"I", "N", "F", "O">>
W_REPLCONF == <<"R", "E", "P", "L", "C", "O", "N", "F">>
W_GETACK == <<"G", "E", "T", "A", "C", "K">>
W_ACK == <<"A", "C", "K">>
W_PSYNC == <<"P", "S", "Y", "N", "C">>
W_WAIT == <<"W", "A", "I", "T">>
W_KEYS == <<"K", "E", "Y", "S">>
W_TYPE == <<"T", "Y", "P", "E">>
W_XADD == <<"X", "A", "D", "D">>
W_MULTI == <<"M", "U", "L", "T", "I">>
W_EXEC == <<"E", "X", "E", "C">>
W_DISCARD == <<"D", "I", "S", "C", "A", "R", "D">>
W_PONG == <<"P", "O", "N", "G">>
W_OK == <<"O", "K">>
W_QUEUED == <<"Q", "U", "E", "U", "E", "D">>
W_FULLRESYNC == <<"F", "U", "L", "L", "R", "E", "S", "Y", "N", "C">>
w_ping == <<"p", "i", "n", "g">>
w_echo == <<"e", "c", "h", "o">>
w_set == <<"s", "e", "t">>
w_get == <<"g", "e", "t">>
w_incr == <<"i", "n", "c", "r">>
w_info == <<"i", "n", "f", "o">>
w_replconf == <<"r", "e", "p", "l", "c", "o", "n", "f">>
w_psync == <<"p", "s", "y", "n", "c">>
w_wait == <<"w", "a", "i", "t">>
w_keys == <<"k", "e", "y", "s">>
w_type == <<"t", "y", "p", "e">>
w_xadd == <<"x", "a", "d", "d">>
w_multi == <<"m", "u", "l", "t", "i">>
w_exec == <<"e", "x", "e", "c">>
w_discard == <<"d", "i", "s", "c", "a", "r", "d">>
w_px == <<"p", "x">>
w_replication == <<"r", "e", "p", "l", "i", "c", "a", "t", "i", "o", "n">>
w_string == <<"s", "t", "r", "i", "n", "g">>
w_stream == <<"s", "t", "r", "e", "a", "m">>
w_none == <<"n", "o", "n", "e">>
W_STAR == <<"*">>

ERR_NOT_INT == <<"E", "R", "R", " ", "v", "a", "l", "u", "e", " ", "i", "s", " ", "n", "o", "t", " ", "a", "n", " ", "i", "n", "t", "e", "g", "e", "r", " ", "o", "r", " ", "o", "u", "t", " ", "o", "f", " ", "r", "a", "n", "g", "e">>
ERR_DISCARD == <<"E", "R", "R", " ", "D", "I", "S", "C", "A", "R", "D", " ", "w", "i", "t", "h", "o", "u", "t", " ", "M", "U", "L", "T", "I">>
\* an error text that does not name the command
ERR_WITHOUT_MULTI == <<"E", "R", "R", " ", "w", "i", "t", "h", "o", "u", "t", " ", "M", "U", "L", "T", "I">>
ERR_EXEC == <<"E", "R", "R", " ", "E", "X", "E", "C", " ", "w", "i", "t", "h", "o", "u", "t", " ", "M", "U", "L", "T", "I">>
ERR_XADD_ZERO == <<"E", "R", "R", " ", "T", "h", "e", " ", "I", "D", " ", "s", "p", "e", "c", "i", "f", "i", "e", "d", " ", "i", "n", " ", "X", "A", "D", "D", " ", "m", "u", "s", "t", " ", "b", "e", " ", "g", "r", "e", "a", "t", "e", "r", " ", "t", "h", "a", "n", " ", "0", "-", "0">>
ERR_XADD_SMALL == <<"E", "R", "R", " ", "T", "h", "e", " ", "I", "D", " ", "s", "p", "e", "c", "i", "f", "i", "e", "d", " ", "i", "n", " ", "X", "A", "D", "D", " ", "i", "s", " ", "e", "q", "u", "a", "l", " ", "o", "r", " ", "s", "m", "a", "l", "l", "e", "r", " ", "t", "h", "a", "n", " ", "t", "h", "e", " ", "t", "a", "r", "g", "e", "t", " ", "s", "t", "r", "e", "a", "m", " ", "t", "o", "p", " ", "i", "t", "e", "m">>

master_replid == <<"8", "3", "7", "1", "b", "4", "f", "b", "1", "1", "5", "5", "b", "7", "1", "f", "4", "a", "0", "4", "d", "3", "e", "1", "b", "c", "3", "e", "1", "8", "c", "4", "a", "9", "9", "0", "a", "e", "e", "b">>

UpperCase == <<"A", "B", "C", "D", "E", "F", "G", "H", "I", "J", "K", "L", "M",
               "N", "O", "P", "Q", "R", "S", "T", "U", "V", "W", "X", "Y", "Z">>
LowerCase == <<"a", "b", "c", "d", "e", "f", "g", "h", "i", "j", "k", "l", "m",
               "n", "o", "p", "q", "r", "s", "t", "u", "v", "w", "x", "y", "z">>

LowerChar(c) ==
    IF \E i \in 1..26 : UpperCase[i] = c
    THEN LowerCase[CHOOSE i \in 1..26 : UpperCase[i] = c]
    ELSE c

\* str::to_lowercase
to_lowercase(s) == [i \in 1..Len(s) |-> LowerChar(s[i])]

\* RedisValue::array_of_bulkstrings_from, on the words split_whitespace yields
array_of_bulkstrings_from(ws) ==
    Array(Len(ws), [i \in 1..Len(ws) |-> bulkstring_from(ws[i])])

(***************************************************************************)
(* command.rs: RedisCommand and TryFrom<&RedisValue>                       *)
(***************************************************************************)
NoFields == [f \in {} |-> <<>>]

RedisCommand(name, key, val, px, nb, ms, fields) ==
    [name |-> name, key |-> key, val |-> val, px |-> px, nb |-> nb, ms |-> ms,
     fields |-> fields]

Command0(name) == RedisCommand(name, <<>>, <<>>, NoPx, 0, 0, NoFields)
Command1(name, key) == RedisCommand(name, key, <<>>, NoPx, 0, 0, NoFields)

CmdOk(c) == [ok |-> TRUE, cmd |-> c]
CmdErr == [ok |-> FALSE, cmd |-> Command0("Ping")]

IsBulk(v) == v.t = "BulkString"

\* the while loop of the xadd arm: store.insert(args[i], args[i + 1])
RECURSIVE XaddStore(_, _, _)
XaddStore(args, i, acc) ==
    IF i + 1 > Len(args) THEN acc
    ELSE XaddStore(args, i + 2,
                   [f \in DOMAIN acc \cup {args[i].s} |->
                       IF f = args[i].s THEN args[i + 1].s ELSE acc[f]])

\* RedisValue::inner_string fails on an Array only
HasInnerString(v) == v.t # "Array"

InnerString(v) ==
    CASE v.t = "Integer" -> IntToString(v.n)
      [] v.t = "NullBulkString" -> <<"(", "n", "i", "l", ")">>
      [] OTHER -> v.s

OneBulkArg(name, nb_elements, args) ==
    IF nb_elements # 2 \/ ~IsBulk(args[1]) THEN CmdErr
    ELSE CmdOk(Command1(name, args[1].s))

NoArg(name, nb_elements) ==
    IF nb_elements # 1 THEN CmdErr ELSE CmdOk(Command0(name))

try_from(redis_value) ==
    LET Named(nb_elements, command, args, name) ==
            CASE name = w_ping -> NoArg("Ping", nb_elements)
              [] name = w_echo -> OneBulkArg("Echo", nb_elements, args)
              [] name = w_set ->
                   IF nb_elements \notin {3, 5} \/ ~IsBulk(args[1]) \/ ~IsBulk(args[2])
                   THEN CmdErr
                   ELSE IF nb_elements = 3
                   THEN CmdOk(RedisCommand("Set", args[1].s, args[2].s, NoPx, 0, 0, NoFields))
                   ELSE IF ~IsBulk(args[3]) \/ ~IsBulk(args[4])
                           \/ to_lowercase(args[3].s) # w_px
                           \/ ~ParseU64(args[4].s).ok
                   THEN CmdErr
                   ELSE CmdOk(RedisCommand("Set", args[1].s, args[2].s,
                                           SomePx(ParseU64(args[4].s).val), 0, 0, NoFields))
              [] name = w_get -> OneBulkArg("Get", nb_elements, args)
              [] name = w_incr -> OneBulkArg("Incr", nb_elements, args)
              [] name = w_info -> OneBulkArg("Info", nb_elements, args)
              [] name = w_replconf ->
                   IF nb_elements # 3 \/ ~HasInnerString(args[1]) \/ ~HasInnerString(args[2])
                   THEN CmdErr
                   ELSE IF InnerString(args[1]) = W_GETACK /\ InnerString(args[2]) = W_STAR
                   THEN CmdOk(Command0("ReplConfGetAck"))
                   ELSE CmdOk(Command0("ReplConf"))
              [] name = w_psync -> CmdOk(Command0("Psync"))
              [] name = w_wait ->
                   IF nb_elements # 3 \/ ~IsBulk(args[1]) \/ ~IsBulk(args[2])
                      \/ ~ParseU64(args[1].s).ok \/ ~ParseU64(args[2].s).ok
                   THEN CmdErr
                   ELSE CmdOk(RedisCommand("Wait", <<>>, <<>>, NoPx, ParseU64(args[1].s).val,
                                           ParseU64(args[2].s).val, NoFields))
              [] name = w_type -> OneBulkArg("Type", nb_elements, args)
              [] name = w_xadd ->
                   IF nb_elements < 5 \/ nb_elements % 2 # 1
                      \/ \E i \in 1..Len(args) : ~IsBulk(args[i])
                   THEN CmdErr
                   ELSE CmdOk(RedisCommand("Xadd", args[1].s, args[2].s, NoPx, 0, 0,
                                           XaddStore(args, 3, NoFields)))
              [] name = w_multi -> NoArg("Multi", nb_elements)
              [] name = w_exec -> NoArg("Exec", nb_elements)
              [] name = w_discard -> NoArg("Discard", nb_elements)
              [] OTHER -> CmdErr
    IN  IF redis_value.t # "Array" \/ redis_value.items = <<>> THEN CmdErr
        ELSE IF ~IsBulk(Head(redis_value.items)) THEN CmdErr
        ELSE Named(redis_value.n, Head(redis_value.items), Tail(redis_value.items),
                   to_lowercase(Head(redis_value.items).s))

should_forward_to_replicas(command) == command.name = "Set"

(***************************************************************************)
(* db.rs: ConnectionState, DbInfo, the replicas; token.rs: TokenTrack      *)
(***************************************************************************)
ConnectionState(name, start, timeout, requested, obtained) ==
    [name |-> name, start |-> start, timeout |-> timeout, requested |-> requested,
     obtained |-> obtained]

Ready == ConnectionState("Ready", 0, 0, 0, 0)
Waiting(start, timeout, requested, obtained) ==
    ConnectionState("Waiting", start, timeout, requested, obtained)
InitiatingTransaction == ConnectionState("InitiatingTransaction", 0, 0, 0, 0)
BeforePing == ConnectionState("BeforePing", 0, 0, 0, 0)
BeforeReplConf1 == ConnectionState("BeforeReplConf1", 0, 0, 0, 0)
BeforeReplConf2 == ConnectionState("BeforeReplConf2", 0, 0, 0, 0)
BeforePsync == ConnectionState("BeforePsync", 0, 0, 0, 0)
BeforeRdbFile == ConnectionState("BeforeRdbFile", 0, 0, 0, 0)

SERVER == 0
MASTER == 1
FIRST_REPLICA_TOKEN == 2
FIRST_UNIQUE_TOKEN == 20

TokenTrack(unique_token, replica_token) ==
    [unique_token |-> unique_token, replica_token |-> replica_token]

\* TokenTrack::new
TokenTrack_new == TokenTrack(FIRST_UNIQUE_TOKEN, FIRST_REPLICA_TOKEN)

\* TokenTrack::next_unique_token: the token handed out is track.unique_token
next_unique_token(track) == [track EXCEPT !.unique_token = @ + 1]

\* a next_replica_token without the test of the range
next_replica_token_unchecked(track) ==
    [track |-> [track EXCEPT !.replica_token = @ + 1], panic |-> FALSE]

\* TokenTrack::next_replica_token: panics once the replica range is used up
next_replica_token(track) ==
    [track |-> [track EXCEPT !.replica_token = @ + 1],
     panic |-> track.replica_token + 1 > FIRST_UNIQUE_TOKEN]

\* Replica::new
Replica(token) == [token |-> token, up_to_date |-> TRUE]

register_replica(reps, replica_token) == Append(reps, Replica(replica_token))

get_nb_uptodate_replicas(reps) ==
    Cardinality({i \in 1..Len(reps) : reps[i].up_to_date})

\* a marking that reaches the first replica only
mark_first_replica_as_outdated(reps) ==
    [i \in 1..Len(reps) |-> IF i = 1 THEN [reps[i] EXCEPT !.up_to_date = FALSE] ELSE reps[i]]

mark_replicas_as_outdated(reps) ==
    [i \in 1..Len(reps) |-> [reps[i] EXCEPT !.up_to_date = FALSE]]

\* the first replica with this token; the expect() panics when there is none
mark_replica_as_uptodate(reps, token) ==
    LET found == {i \in 1..Len(reps) : reps[i].token = token}
        first == CHOOSE i \in found : \A j \in found : i <= j
    IN  [i \in 1..Len(reps) |->
            IF i = first THEN [reps[i] EXCEPT !.up_to_date = TRUE] ELSE reps[i]]

DbInfo(role, port) == [role |-> role, port |-> port]

\* impl Display for DbInfo
DbInfo_to_string(i) ==
    <<"r", "o", "l", "e", ":">> \o i.role \o CRLF
    \o <<"m", "a", "s", "t", "e", "r", "_", "r", "e", "p", "l", "i", "d", ":">> \o master_replid \o CRLF
    \o <<"m", "a", "s", "t", "e", "r", "_", "r", "e", "p", "l", "_", "o", "f", "f", "s", "e", "t", ":", "0">> \o CRLF

role_master == <<"m", "a", "s", "t", "e", "r">>
role_slave == <<"s", "l", "a", "v", "e">>

\* the snapshot sent after FULLRESYNC, byte by byte (connection_handler.rs 230)
EmptyRdb ==
    <<"x52", "x45", "x44", "x49", "x53", "x30", "x30", "x31", "x31", "xfa", "x09",
      "x72", "x65", "x64", "x69", "x73", "x2d", "x76", "x65", "x72", "x05", "x37",
      "x2e", "x32", "x2e", "x30", "xfa", "x0a", "x72", "x65", "x64", "x69", "x73",
      "x2d", "x62", "x69", "x74", "x73", "xc0", "x40", "xfa", "x05", "x63", "x74",
      "x69", "x6d", "x65", "xc2", "x6d", "x08", "xbc", "x65", "xfa", "x08", "x75",
      "x73", "x65", "x64", "x2d", "x6d", "x65", "x6d", "xc2", "xb0", "xc4", "x10",
      "x00", "xfa", "x08", "x61", "x6f", "x66", "x2d", "x62", "x61", "x73", "x65",
      "xc0", "x00", "xff", "xf0", "x6e", "x3b", "xfe", "xc0", "xff", "x5a", "xa2">>

\* the words of a string, as str::split_whitespace gives them
RECURSIVE split_whitespace(_, _, _)
split_whitespace(s, word, acc) ==
    IF s = <<>> THEN (IF word = <<>> THEN acc ELSE Append(acc, word))
    ELSE IF Head(s) \in {" ", "CR", "LF"}
    THEN split_whitespace(Tail(s), <<>>, IF word = <<>> THEN acc ELSE Append(acc, word))
    ELSE split_whitespace(Tail(s), Append(word, Head(s)), acc)

\* RedisValue::array_of_bulkstrings_from(&str)
array_of_bulkstrings_from_str(s) ==
    array_of_bulkstrings_from(split_whitespace(s, <<>>, <<>>))

(***************************************************************************)
(* command.rs: RedisCommand::execute.  An outcome is [kind, val, store]:   *)
(* kind "ok" (Ok(val)), "err" (Err) or "panic" (a todo!()); store is the   *)
(* key space afterwards.                                                   *)
(***************************************************************************)
ExecOk(val, st) == [kind |-> "ok", val |-> val, store |-> st]
ExecErr(st) == [kind |-> "err", val |-> NoVal, store |-> st]
ExecPanic(st) == [kind |-> "panic", val |-> NoVal, store |-> st]

\* RedisDb::xadd (db.rs 178-218) and the Xadd arm of execute
execute_xadd(command, st, now, unix) ==
    LET key == command.key
        Added(st1, r) ==
            CASE r.kind = "ok" ->
                   ExecOk(bulkstring_from(IdToString(r.id)),
                          [st1 EXCEPT ![key].value = StreamValue(r.entries)])
              [] r.kind = "InvalidStreamId" ->
                   ExecOk(SimpleError(IF r.got = <<"0", "-", "0">> THEN ERR_XADD_ZERO
                                      ELSE ERR_XADD_SMALL), st1)
              [] OTHER -> ExecErr(st1)
        Entry(st1) ==
            IF st1[key].value.type # "Stream" THEN ExecErr(st1)
            ELSE Added(st1, db_stream_xadd(st1[key].value.entries, command.val,
                                           command.fields, unix))
    \* entry(key).or_insert_with(|| DbValue::new(Stream::new(), None))
    IN  Entry(IF key \in DOMAIN st THEN st
              ELSE Insert(st, key, DbValue_new(StreamValue(<<>>), NoPx, now)))

\* the orders in which a HashMap with these keys can be iterated
Orders(S) ==
    {p \in [1..Cardinality(S) -> S] : \A x \in S : \E i \in 1..Cardinality(S) : p[i] = x}

\* store.iter().map(|(k, v)| format!("{} {}", k, v)).collect::<Vec<_>>().join(" ")
RECURSIVE JoinFields(_, _, _)
JoinFields(fields, order, i) ==
    IF i > Len(order) THEN <<>>
    ELSE (IF i = 1 THEN <<>> ELSE <<" ">>)
         \o order[i] \o <<" ">> \o fields[order[i]] \o JoinFields(fields, order, i + 1)

\* keys.join(" ")
RECURSIVE JoinKeys(_, _)
JoinKeys(order, i) ==
    IF i > Len(order) THEN <<>>
    ELSE (IF i = 1 THEN <<>> ELSE <<" ">>) \o order[i] \o JoinKeys(order, i + 1)

\* the Keys arm of RedisCommand::execute with RedisDb::keys, which maps the keys
\* of the HashMap whatever the pattern; order is the order of that iteration
execute_keys(st, order) ==
    ExecOk(array_of_bulkstrings_from_str(JoinKeys(order, 1)), st)

\* the Xrange arm of RedisCommand::execute with RedisDb::xrange; orders[i] is the
\* order in which the HashMap of the i-th entry returned is iterated
execute_xrange(st, key, stream_id_start, stream_id_end, now, unix, orders) ==
    LET Reply(st1, r) ==
            IF ~r.ok THEN ExecErr(st1)
            ELSE ExecOk(Array(Len(r.items),
                              [i \in 1..Len(r.items) |->
                                  Array(2, <<bulkstring_from(r.items[i][1]),
                                             array_of_bulkstrings_from_str(
                                                 JoinFields(r.items[i][2], orders[i], 1))>>)]),
                        st1)
        Entry(st1) ==
            IF st1[key].value.type # "Stream" THEN ExecErr(st1)
            ELSE Reply(st1, stream_xrange(st1[key].value.entries, stream_id_start,
                                          stream_id_end, unix))
    \* entry(key).or_insert_with(|| DbValue::new(Stream::new(), None))
    IN  Entry(IF key \in DOMAIN st THEN st
              ELSE Insert(st, key, DbValue_new(StreamValue(<<>>), NoPx, now)))

\* RedisValue::Integer of an i64; one beyond nine digits is carried as its decimal text
Integer64(x) ==
    IF Len(x.mag) <= 9
    THEN Integer(IF x.neg THEN 0 - DigitsValue(x.mag, 0) ELSE DigitsValue(x.mag, 0))
    ELSE RedisValue("Integer", 0, I64ToString(x), <<>>)

execute(command, st, now, unix, consumed, dbinfo, checks) ==
    LET Got(g) ==
            IF ~g.val.some THEN ExecOk(NullBulkString, g.store)
            ELSE IF g.val.value.type = "String"
            THEN ExecOk(SimpleString(g.val.value.s), g.store)
            ELSE ExecPanic(g.store)
        Incremented(i) ==
            IF i.panic THEN ExecPanic(i.store)
            ELSE IF i.ok THEN ExecOk(Integer64(i.val), i.store)
            ELSE ExecOk(SimpleError(ERR_NOT_INT), i.store)
        Typed(g) ==
            ExecOk(SimpleString(IF ~g.val.some THEN w_none
                                ELSE IF g.val.value.type = "String" THEN w_string
                                ELSE w_stream), g.store)
    IN  CASE command.name = "Ping" -> ExecOk(SimpleString(W_PONG), st)
          [] command.name = "Echo" -> ExecOk(SimpleString(command.key), st)
          [] command.name = "Set" ->
               ExecOk(SimpleString(W_OK),
                      db_set(st, command.key, StringValue(command.val), command.px, now))
          [] command.name = "Get" -> Got(db_get(st, command.key, now))
          [] command.name = "Incr" -> Incremented(db_incr(st, command.key, checks))
          [] command.name = "Info" ->
               IF command.key = w_replication
               THEN ExecOk(bulkstring_from(DbInfo_to_string(dbinfo)), st)
               ELSE ExecErr(st)
          [] command.name = "ReplConf" -> ExecOk(SimpleString(W_OK), st)
          [] command.name = "ReplConfGetAck" ->
               ExecOk(array_of_bulkstrings_from(<<W_REPLCONF, W_ACK, NatToString(consumed)>>),
                      st)
          [] command.name = "Psync" ->
               ExecOk(SimpleString(W_FULLRESYNC \o <<" ">> \o master_replid \o <<" ", "0">>),
                      st)
          [] command.name = "Type" -> Typed(db_get(st, command.key, now))
          [] command.name = "Xadd" -> execute_xadd(command, st, now, unix)
          \* Wait, Multi, Exec, Discard: todo!()
          [] OTHER -> ExecPanic(st)

(***************************************************************************)
(* The bounds of the server specifications and the frames their peers      *)
(* send.  The inputs are parsed once: decode is parse_redis_value, looked   *)
(* up in a table for the inputs of the specifications.                     *)
(***************************************************************************)
MaxClients == 2
MaxQueue == 2
MaxProcessedBytes == 41
MaxReplicationClients == 2
MaxReplicatedBytes == 57
MaxReplicatedQueue == 1
MaxReplicaBytes == 78
MaxObtained == 2
MaxServerInstant == 300
PollTimeout == 100
MaxCommandClients == 2
MaxCommandBytes == 64
MaxCommandQueue == 1
MaxAckClients == 3
MaxAckBytes == 87
MaxAckQueue == 0
MaxReplicaClients == 1
MaxReplicaClientBytes == 78
MaxReplicaClientQueue == 0
MaxSplitClients == 2
MaxSplitBytes == 54
MaxSplitQueue == 0
MaxFieldEntries == 2
MaxByte == 255
MaxPendingClients == 2
MaxPendingBytes == 42
MaxPendingQueue == 0
MaxUnread == 1
MaxSyncClients == 3
MaxSyncBytes == 200
MaxSyncQueue == 0
MaxTokenClients == 20
MaxPending == 1
MaxTokenBytes == 600
MaxTokenQueue == 0

PingFrame == array_of_bulkstrings_from_str(W_PING)
PsyncFrame == array_of_bulkstrings_from_str(<<"P", "S", "Y", "N", "C", " ", "?", " ", "-", "1">>)
GetAckFrame == array_of_bulkstrings_from_str(<<"R", "E", "P", "L", "C", "O", "N", "F", " ", "G", "E", "T", "A", "C", "K", " ", "*">>)
SnapshotHeader == <<"$">> \o NatToString(Len(EmptyRdb)) \o CRLF
Key == <<"k">>
SetFrame(key, val) == array_of_bulkstrings_from(<<W_SET, key, val>>)
GetFrame(key) == array_of_bulkstrings_from(<<W_GET, key>>)
InfoFrame(section) == array_of_bulkstrings_from(<<W_INFO, section>>)
WaitFrame(n, ms) == array_of_bulkstrings_from(<<W_WAIT, NatToString(n), NatToString(ms)>>)
XaddFrame(key, id) == array_of_bulkstrings_from(<<W_XADD, key, id, <<"f">>, <<"v">>>>)
MultiFrame == array_of_bulkstrings_from(<<W_MULTI>>)
ExecFrame == array_of_bulkstrings_from(<<W_EXEC>>)
DiscardFrame == array_of_bulkstrings_from(<<W_DISCARD>>)

\* an inline command: its first byte is none of the five type bytes
InlinePing == W_PING \o CRLF

\* what the clients of SpecServer send: single frames, frames pipelined in one
\* read, and an inline command
ClientFrames ==
    {PingFrame, SetFrame(Key, <<"a">>), MultiFrame, ExecFrame, DiscardFrame,
     InfoFrame(<<"x">>)}

PipelinedFrames == {<<ExecFrame, PingFrame>>, <<PingFrame, PingFrame>>}

ClientInputs ==
    {Display(f) : f \in ClientFrames}
    \cup {Display(p[1]) \o Display(p[2]) : p \in PipelinedFrames}
    \cup {InlinePing}

\* what the clients of SpecReplication send; a client that sends PSYNC is a replica
ReplicationFrames ==
    {SetFrame(Key, <<"a">>), WaitFrame(1, PollTimeout), PsyncFrame, MultiFrame, ExecFrame}

ReplicationInputs == {Display(f) : f \in ReplicationFrames}

\* what the clients of SpecAck send: writes, WAITs and the PSYNC of a replica
AckFrames == {SetFrame(Key, <<"a">>), WaitFrame(1, PollTimeout), PsyncFrame}

AckInputs == {Display(f) : f \in AckFrames}

\* what the master of SpecReplica sends: the replies of the handshake, the
\* snapshot, and commands, alone or behind one another in one read
PongLine == Display(SimpleString(W_PONG))
OkLine == Display(SimpleString(W_OK))
FullResyncLine ==
    Display(SimpleString(W_FULLRESYNC \o <<" ">> \o master_replid \o <<" ", "0">>))
SnapshotBytes == SnapshotHeader \o EmptyRdb

MasterFrames == {SetFrame(Key, <<"a">>), GetAckFrame, PingFrame, ExecFrame}

MasterInputs ==
    {PongLine, OkLine, FullResyncLine, SnapshotBytes, SnapshotBytes \o Display(GetAckFrame),
     Display(SetFrame(Key, <<"a">>)) \o Display(GetAckFrame)}
    \cup {Display(f) : f \in MasterFrames}

\* what the master of SpecSnapshot sends: the end of the handshake with the
\* +FULLRESYNC line and the snapshot in separate reads, in one read, the snapshot
\* cut in two, and a command behind the snapshot
SnapshotFirstPart == SnapshotHeader \o SubSeq(EmptyRdb, 1, Len(EmptyRdb) \div 2)

SnapshotInputs ==
    {PongLine, OkLine, FullResyncLine, SnapshotBytes, FullResyncLine \o SnapshotBytes,
     SnapshotFirstPart, SnapshotBytes \o Display(SetFrame(Key, <<"a">>))}

\* what the clients of SpecSplit send: a SET whole, and the same bytes cut in the
\* middle of the frame into the part of a first read and the part of a second
SetBytes == Display(SetFrame(Key, <<"a">>))
SetFirstPart == SubSeq(SetBytes, 1, Len(SetBytes) \div 2)
SetSecondPart == SubSeq(SetBytes, Len(SetBytes) \div 2 + 1, Len(SetBytes))

SplitInputs == {SetBytes, SetFirstPart, SetSecondPart, Display(GetFrame(Key))}

\* what an ordinary client of a replica sends in SpecReplicaClients
ReplicaClientFrames == {GetFrame(Key), PingFrame}

ReplicaClientInputs == {Display(f) : f \in ReplicaClientFrames}

\* what the client of SpecCommands sends: commands on one key, and frames that map
\* to no command: an unknown name, a missing argument, an argument that is no bulk
\* string, an empty array and a value that is no array
UnknownFrame == array_of_bulkstrings_from(<<<<"F", "O", "O">>>>)
GetNoKeyFrame == array_of_bulkstrings_from(<<W_GET>>)
NonBulkFrame == Array(2, <<bulkstring_from(W_GET), Integer(1)>>)
EmptyArrayFrame == Array(0, <<>>)
SimpleFrame == SimpleString(W_PING)

UnmappedFrames == {UnknownFrame, GetNoKeyFrame, NonBulkFrame, EmptyArrayFrame, SimpleFrame}

CommandFrames ==
    {SetFrame(Key, <<"a">>), GetFrame(Key), XaddFrame(Key, <<"1", "-", "1">>), MultiFrame}
    \cup UnmappedFrames

CommandInputs == {Display(f) : f \in CommandFrames}

AllInputs == ClientInputs \cup ReplicationInputs \cup MasterInputs \cup CommandInputs \cup SnapshotInputs \cup SplitInputs

Decoded == [input \in AllInputs |-> parse_redis_value(input)]

decode(input) == IF input \in AllInputs THEN Decoded[input] ELSE parse_redis_value(input)

(***************************************************************************)
(* connection_handler.rs: handle_connection.  The handler works on d, the  *)
(* fields of RedisDb it reads and writes, together with a record of what   *)
(* it did: wrote, the writes to the connection, each with the number of    *)
(* the frame it answers; sent, the writes to each replica; handled, the    *)
(* frames the loop parsed; sets, the SET frames it executed.  The outcome  *)
(* is [kind, done, register, d]: kind "ok" for Ok((done, register)),       *)
(* "err" for Err and "panic" for a panic.                                  *)
(***************************************************************************)
HOk(done, register, d) == [kind |-> "ok", done |-> done, register |-> register, d |-> d]
HErr(d) == [kind |-> "err", done |-> FALSE, register |-> FALSE, d |-> d]
HPanic(d) == [kind |-> "panic", done |-> FALSE, register |-> FALSE, d |-> d]

\* connection.write_all(bytes) on the connection of the event
write_all(d, writable, bytes) ==
    IF writable
    THEN [ok |-> TRUE,
          d |-> [d EXCEPT !.wrote = Append(@, [frame |-> Len(d.handled), bytes |-> bytes])]]
    ELSE [ok |-> FALSE, d |-> d]

\* RedisDb::send_to_replicas: the loop stops at the first write that fails
RECURSIVE send_to_replicas(_, _, _, _, _)
send_to_replicas(d, i, bytes, ignore_up_to_date, socks) ==
    IF i > Len(d.replicas) THEN [ok |-> TRUE, d |-> d]
    ELSE IF d.replicas[i].up_to_date /\ ignore_up_to_date
    THEN send_to_replicas(d, i + 1, bytes, ignore_up_to_date, socks)
    ELSE IF socks[d.replicas[i].token] # "open" THEN [ok |-> FALSE, d |-> d]
    ELSE send_to_replicas([d EXCEPT !.sent[d.replicas[i].token] = Append(@, bytes)],
                          i + 1, bytes, ignore_up_to_date, socks)

QueuedCommand(command, frame) == [command |-> command, frame |-> frame]

\* the for loop of the Exec arm: execute(db)? on each queued command; d.results
\* is the Vec result
RECURSIVE execute_queue(_, _, _, _)
execute_queue(d, commands, now, unix) ==
    IF commands = <<>> THEN [kind |-> "ok", d |-> d]
    ELSE LET queued == Head(commands)
             Executed(e) ==
                 IF e.kind # "ok" THEN [kind |-> e.kind, d |-> [d EXCEPT !.store = e.store]]
                 ELSE execute_queue(
                          [d EXCEPT !.store = e.store,
                                    !.results = Append(@, e.val),
                                    !.sets = IF queued.command.name = "Set"
                                             THEN Append(@, queued.frame) ELSE @],
                          Tail(commands), now, unix)
         IN  Executed(execute(queued.command, d.store, now, unix, d.processed_bytes, d.info,
                              d.overflow_checks))



\* a test that takes the transaction of any connection for the connection's own
within_any_transaction(d, token) == DOMAIN d.ongoing_transacations # {}

\* db.ongoing_transacations.contains_key(&token)
within_transaction(d, token) == token \in DOMAIN d.ongoing_transacations

RECURSIVE frame_loop(_, _, _, _, _, _, _, _, _)
\* the Ready arm for one frame: redis_value parsed from the bytes frame
ready_frame(token, silent, writable, socks, now, unix, rest, redis_value, frame, d, register) ==
    LET in_transaction == within_transaction(d, token)
        \* write_all(..)?; return Ok((false, false))
        Return(w) == IF w.ok THEN HOk(FALSE, FALSE, w.d) ELSE HErr(w.d)
        Exec(q) ==
            IF q.kind = "panic" THEN HPanic(q.d)
            ELSE IF q.kind = "err" THEN HErr(q.d)
            ELSE Return(write_all(q.d, writable,
                                  Display(Array(Len(q.d.results), q.d.results))))
        Wait(g) == IF g.ok THEN HOk(TRUE, FALSE, g.d) ELSE HErr(g.d)
        Continue(d4, psync) ==
            frame_loop(token, silent, writable, socks, now, unix, rest, d4, register \/ psync)
        Forwarded(f, psync) == IF f.ok THEN Continue(f.d, psync) ELSE HErr(f.d)
        Forward(d3, redis_command, psync) ==
            IF should_forward_to_replicas(redis_command)
            THEN Forwarded(send_to_replicas(
                               [d3 EXCEPT !.replicas = mark_replicas_as_outdated(@)], 1,
                               Display(redis_value), FALSE, socks), psync)
            ELSE Continue(d3, psync)
        Snapshot(b, redis_command) ==
            IF b.ok THEN Forward(b.d, redis_command, TRUE) ELSE HErr(b.d)
        Header(h, redis_command) ==
            IF h.ok THEN Snapshot(write_all(h.d, writable, EmptyRdb), redis_command)
            ELSE HErr(h.d)
        Counted(d2, redis_command) ==
            IF redis_command.name = "Psync"
            THEN Header(write_all(d2, writable, SnapshotHeader), redis_command)
            ELSE Forward(d2, redis_command, FALSE)
        Answered(w, redis_command) ==
            IF w.ok
            THEN Counted([w.d EXCEPT !.processed_bytes = @ + Len(Display(redis_value))],
                         redis_command)
            ELSE HErr(w.d)
        Stored(d1, e, redis_command) ==
            IF e.kind = "panic" THEN HPanic(d1)
            ELSE IF e.kind = "err" THEN HErr(d1)
            ELSE IF ~silent \/ redis_command.name = "ReplConfGetAck"
            THEN Answered(write_all(d1, writable, Display(e.val)), redis_command)
            ELSE Answered([ok |-> TRUE, d |-> d1], redis_command)
        Executed(e, redis_command) ==
            Stored([d EXCEPT !.store = e.store,
                             !.sets = IF e.kind = "ok" /\ redis_command.name = "Set"
                                      THEN Append(@, frame) ELSE @],
                   e, redis_command)
        Command(redis_command) ==
            IF redis_command.name = "Multi"
            THEN HOk(TRUE, FALSE, [d EXCEPT !.state = InitiatingTransaction])
            ELSE IF in_transaction /\ redis_command.name = "Discard"
            THEN Return(write_all([d EXCEPT !.ongoing_transacations = Remove(@, token)],
                                  writable, Display(SimpleString(W_OK))))
            ELSE IF in_transaction /\ redis_command.name = "Exec"
            THEN Exec(execute_queue([d EXCEPT !.ongoing_transacations = Remove(@, token)],
                                    d.ongoing_transacations[token], now, unix))
            ELSE IF in_transaction
            THEN Return(write_all([d EXCEPT !.ongoing_transacations[token] =
                                                Append(@, QueuedCommand(redis_command, frame))],
                                  writable, Display(SimpleString(W_QUEUED))))
            ELSE IF redis_command.name = "Exec"
            THEN Return(write_all(d, writable, Display(SimpleError(ERR_EXEC))))
            ELSE IF redis_command.name = "Discard"
            THEN Return(write_all(d, writable, Display(SimpleError(ERR_DISCARD))))
            ELSE IF redis_command.name = "Wait"
            THEN Wait(send_to_replicas(
                          [d EXCEPT !.state = Waiting(now, redis_command.ms, redis_command.nb,
                                                      get_nb_uptodate_replicas(d.replicas))],
                          1, Display(GetAckFrame), TRUE, socks))
            ELSE Executed(execute(redis_command, d.store, now, unix, d.processed_bytes,
                                  d.info, d.overflow_checks),
                          redis_command)
        Mapped(c) == IF c.ok THEN Command(c.cmd) ELSE HErr(d)
    IN  Mapped(try_from(redis_value))

\* a handshake arm that writes the next message and leaves the state where it is
handshake_frame_keeps_state(token, silent, writable, socks, now, unix, rest, redis_value, d, register, expected, next, message) ==
    LET Written(w) ==
            IF w.ok
            THEN frame_loop(token, silent, writable, socks, now, unix, rest, w.d, register)
            ELSE HErr(w.d)
    IN  IF redis_value = SimpleString(expected)
        THEN Written(write_all(d, writable, Display(message)))
        ELSE HErr(d)

\* one arm of the handshake: the expected answer moves the state on, then the
\* next message is written
handshake_frame(token, silent, writable, socks, now, unix, rest, redis_value, d, register, expected, next, message) ==
    LET Written(w) ==
            IF w.ok
            THEN frame_loop(token, silent, writable, socks, now, unix, rest, w.d, register)
            ELSE HErr(w.d)
    IN  IF redis_value = SimpleString(expected)
        THEN Written(write_all([d EXCEPT !.state = next], writable, Display(message)))
        ELSE HErr(d)

ReplConfPortFrame(port) ==
    array_of_bulkstrings_from_str(<<"R", "E", "P", "L", "C", "O", "N", "F", " ", "l", "i", "s", "t", "e", "n", "i", "n", "g", "-", "p", "o", "r", "t", " ">> \o NatToString(port))
ReplConfCapaFrame == array_of_bulkstrings_from_str(<<"R", "E", "P", "L", "C", "O", "N", "F", " ", "c", "a", "p", "a", " ", "p", "s", "y", "n", "c", "2">>)

\* while !input.is_empty()
frame_loop(token, silent, writable, socks, now, unix, input, d, register) ==
    LET Frame(p, name, d1) ==
            CASE name = "BeforeRdbFile" -> HPanic(d1)
              [] name = "BeforePing" ->
                   handshake_frame(token, silent, writable, socks, now, unix, p.rest, p.val,
                                   d1, register, W_PONG, BeforeReplConf1,
                                   ReplConfPortFrame(d.info.port))
              [] name = "BeforeReplConf1" ->
                   handshake_frame(token, silent, writable, socks, now, unix, p.rest, p.val,
                                   d1, register, W_OK, BeforeReplConf2, ReplConfCapaFrame)
              [] name = "BeforeReplConf2" ->
                   handshake_frame(token, silent, writable, socks, now, unix, p.rest, p.val,
                                   d1, register, W_OK, BeforePsync, PsyncFrame)
              [] name = "BeforePsync" ->
                   frame_loop(token, silent, writable, socks, now, unix, p.rest,
                              [d1 EXCEPT !.state = BeforeRdbFile], register)
              [] name = "Ready" ->
                   ready_frame(token, silent, writable, socks, now, unix, p.rest, p.val,
                               SubSeq(input, 1, Len(input) - Len(p.rest)), d1, register)
              \* Waiting, BlockingStreams, InitiatingTransaction: the frame is dropped
              [] OTHER ->
                   frame_loop(token, silent, writable, socks, now, unix, p.rest, d1, register)
        Parsed(p) ==
            IF p.kind = "panic" THEN HPanic(d)
            ELSE IF p.kind = "err" THEN HErr(d)
            ELSE Frame(p, d.state.name,
                       [d EXCEPT !.handled =
                                    Append(@, SubSeq(input, 1, Len(input) - Len(p.rest)))])
    IN  IF input = <<>> THEN HOk(FALSE, register, d) ELSE Parsed(decode(input))

find_crlf_position(buffer) == CrlfPosition(buffer, 1)

\* a & b and a | b on unsigned integers
RECURSIVE BitAnd(_, _)
BitAnd(a, b) ==
    IF a = 0 \/ b = 0 THEN 0
    ELSE (a % 2) * (b % 2) + 2 * BitAnd(a \div 2, b \div 2)

RECURSIVE BitOr(_, _)
BitOr(a, b) ==
    IF a = 0 THEN b
    ELSE IF b = 0 THEN a
    ELSE (IF a % 2 = 1 \/ b % 2 = 1 THEN 1 ELSE 0) + 2 * BitOr(a \div 2, b \div 2)

LengthOk(length, consumed) == [ok |-> TRUE, length |-> length, consumed |-> consumed]
LengthErr == [ok |-> FALSE, length |-> 0, consumed |-> 1]

\* rdb.rs, impl BinRead for LengthEncoding: the bytes at the reader's position.
\* `first_part << 8 & second_part` is (first_part << 8) & second_part
LengthEncoding_read(bytes) ==
    LET byte == bytes[1]
    IN  CASE byte \div 64 = 0 -> LengthOk(byte % 64, 1)
          [] byte \div 64 = 1 -> LengthOk(BitAnd((byte % 64) * 256, bytes[2]), 2)
          [] byte \div 64 = 2 -> LengthOk(bytes[2], 2)
          [] OTHER -> LengthErr

\* parser.rs parse_rdb_length: any one character, then an integer and CRLF
parse_rdb_length(input) ==
    IF input = <<>> THEN PErr ELSE parse_redis_int(Tail(input))

\* Rdb::read on the bytes of a snapshot: the snapshot a master of this program
\* sends holds no database section; any other content is refused
Rdb_read(rdb_bytes) == rdb_bytes = EmptyRdb

\* the BeforeRdbFile arm that precedes the loop (connection_handler.rs 37-53)
rdb_file(token, silent, writable, socks, now, unix, received_data, d) ==
    LET Length(position, length) ==
            IF length.kind # "ok" THEN HErr(d)
            \* the slice of a negative or too large length is out of range
            ELSE IF length.val < 0 \/ position + 1 + length.val > Len(received_data)
            THEN HPanic(d)
            ELSE IF ~Rdb_read(SubSeq(received_data, position + 2, position + 1 + length.val))
            THEN HErr(d)
            ELSE frame_loop(token, silent, writable, socks, now, unix,
                            SubSeq(received_data, position + 2 + length.val,
                                   Len(received_data)),
                            [d EXCEPT !.state = Ready], FALSE)
        Position(position) ==
            \* find_crlf_position(..).unwrap()
            IF position = 0 THEN HPanic(d)
            ELSE Length(position, parse_rdb_length(SubSeq(received_data, 1, position + 1)))
    IN  Position(find_crlf_position(received_data))

\* read is [ok, closed, bytes], what ConnectionData::receive_data returned
handle_connection(token, silent, writable, socks, now, unix, read, d) ==
    IF ~read.ok THEN HErr(d)
    ELSE IF read.bytes = <<>> THEN HOk(read.closed, FALSE, d)
    ELSE IF d.state.name = "BeforeRdbFile"
    THEN rdb_file(token, silent, writable, socks, now, unix, read.bytes, d)
    ELSE frame_loop(token, silent, writable, socks, now, unix, read.bytes, d, FALSE)

(***************************************************************************)
(* The initial state of each part, and its idle state in the               *)
(* specifications that do not exercise it                                  *)
(***************************************************************************)
NotParsed == [of |-> "none", res |-> PErr]

CodecInit ==
    /\ rv \in WellFormed
    /\ follow \in Followers
    /\ parsed = NotParsed

CodecIdle ==
    /\ rv = NoVal
    /\ follow = NoVal
    /\ parsed = NotParsed

NoXadd == [op |-> "none", res |-> XaddErr(<<>>)]

StreamInit ==
    /\ stream = <<>>
    /\ unix_ms \in 0..MaxClock
    /\ xadded = NoXadd

\* an empty stream that is queried and appended to with explicit ids only
XrangeInit ==
    /\ stream = <<>>
    /\ unix_ms = 0
    /\ xadded = NoXadd

StreamIdle ==
    /\ stream = <<>>
    /\ unix_ms = 0
    /\ xadded = NoXadd

Keys == {"k1", "k2"}

EmptyStore == [k \in {} |-> DbValue(StringValue(<<>>), NoInstant)]

NoAnswer == [op |-> "none", key |-> "k1", val |-> NoneValue, at |-> 0]

\* per key: the ttl and the value of the write that last stored the key anew
NotWritten == [ttl |-> NoPx, at |-> 0, s |-> <<>>]

DbInit ==
    /\ store = EmptyStore
    /\ instant = 0
    /\ answer = NoAnswer
    /\ written = [k \in Keys |-> NotWritten]

DbIdle == DbInit

NoToken == [some |-> FALSE, token |-> 0]
SomeToken(token) == [some |-> TRUE, token |-> token]

NoSockets == [t \in {} |-> "open"]

NoTransactions == [t \in {} |-> <<>>]

\* the record of an event: the state and the queue of the connection before it,
\* the frames of the read, and what the handler did with them
Event(kind, token, frames, d, outcome) ==
    [kind |-> kind, token |-> token, was |-> state.name,
     in_transaction |-> token \in DOMAIN ongoing_transacations,
     queue |-> IF token \in DOMAIN ongoing_transacations
               THEN ongoing_transacations[token] ELSE <<>>,
     frames |-> frames, handled |-> d.handled, wrote |-> d.wrote, sent |-> d.sent,
     sets |-> d.sets, results |-> d.results, outcome |-> outcome]

NoEvent ==
    [kind |-> "none", token |-> 0, was |-> "Ready", in_transaction |-> FALSE, queue |-> <<>>,
     frames |-> <<>>, handled |-> <<>>, wrote |-> <<>>, sent |-> NoSockets, sets |-> <<>>,
     results |-> <<>>, outcome |-> "ok"]

Port == 6379

\* main.rs 39-90 without --replicaof: a master, Ready
MasterInit ==
    /\ state = Ready
    /\ info = DbInfo(role_master, Port)
    /\ ongoing_transacations = NoTransactions
    /\ replicas = <<>>
    /\ processed_bytes = 0
    /\ token_track = TokenTrack_new
    /\ connections = {}
    /\ waiting_connection = NoToken
    /\ sock = NoSockets
    /\ exited = "running"
    /\ since_poll = 0
    /\ to_master = <<>>
    /\ overflow_checks \in BOOLEAN
    /\ ev = NoEvent

\* main.rs 39-90 with --replicaof: connected to the master, the PING written
ReplicaInit ==
    /\ state = BeforePing
    /\ info = DbInfo(role_slave, Port)
    /\ ongoing_transacations = NoTransactions
    /\ replicas = <<>>
    /\ processed_bytes = 0
    /\ token_track = TokenTrack_new
    /\ connections = {}
    /\ waiting_connection = NoToken
    /\ sock = [t \in {MASTER} |-> "open"]
    /\ exited = "running"
    /\ since_poll = 0
    /\ to_master = <<Display(PingFrame)>>
    /\ overflow_checks \in BOOLEAN
    /\ ev = NoEvent

ServerIdle == MasterInit

\* the key space and the clocks of a server that starts
ServerStore ==
    /\ store = EmptyStore
    /\ instant = 0
    /\ answer = NoAnswer
    /\ written = [k \in Keys |-> NotWritten]

(***************************************************************************)
(* SpecStream: appends to one stream while the system clock moves          *)
(***************************************************************************)
Stores == {[f \in {"f1"} |-> "v1"]}

ExplicitIds == {StreamId(ts, seq) : ts \in 0..MaxTs, seq \in 0..MaxSeq}

IdSpecs ==
    {IdToString(id) : id \in ExplicitIds}
    \cup {NatToString(ts) \o <<"-", "*">> : ts \in 0..MaxTs}
    \cup {NatToString(ts) : ts \in 0..MaxTs}
    \cup {<<"*">>, <<"a">>, <<"1", "-", "a">>, <<"-", "1">>}

StreamXaddSome ==
    \E id \in ExplicitIds, fields \in Stores :
        /\ Len(stream) < MaxEntries
        /\ LET r == stream_xadd_some(stream, fields, id)
           IN  /\ stream' = r.entries
               /\ xadded' = [op |-> "Stream::xadd Some", res |-> r]
        /\ UNCHANGED <<unix_ms, codecVars, dbVars, serverVars>>

StreamXaddNone ==
    \E fields \in Stores :
        /\ Len(stream) < MaxEntries
        /\ LET r == stream_xadd_none(stream, fields, unix_ms)
           IN  /\ stream' = r.entries
               /\ xadded' = [op |-> "Stream::xadd None", res |-> r]
        /\ UNCHANGED <<unix_ms, codecVars, dbVars, serverVars>>

DbXadd ==
    \E value \in IdSpecs, fields \in Stores :
        /\ Len(stream) < MaxEntries
        /\ LET r == db_stream_xadd(stream, value, fields, unix_ms)
           IN  /\ stream' = r.entries
               /\ xadded' = [op |-> "RedisDb::xadd", res |-> r]
        /\ UNCHANGED <<unix_ms, codecVars, dbVars, serverVars>>

\* the bounds a range query is given: explicit ids, "-" and "+"
RangeIds == {StreamId(ts, seq) : ts \in 1..MaxTs, seq \in {0, MaxSeq}}

RangeSpecs == {IdToString(id) : id \in RangeIds} \cup {<<"-">>, <<"+">>}

StreamXrange ==
    \E start \in RangeSpecs, end \in RangeSpecs :
        /\ xadded' = [op |-> "Stream::xrange", start |-> start, end |-> end,
                      res |-> stream_xrange(stream, start, end, unix_ms)]
        /\ UNCHANGED <<stream, unix_ms, codecVars, dbVars, serverVars>>

ClockAdvance ==
    /\ unix_ms < MaxClock
    /\ unix_ms' = unix_ms + 1
    /\ UNCHANGED <<stream, xadded, codecVars, dbVars, serverVars>>

StreamNext == StreamXaddSome \/ StreamXaddNone \/ DbXadd \/ ClockAdvance

XrangeNext == StreamXaddSome \/ StreamXrange

(***************************************************************************)
(* SpecCodec: serialise a value (and a follower) and parse it back         *)
(***************************************************************************)
ParseOne ==
    /\ parsed.of = "none"
    /\ parsed' = [of |-> "one", res |-> parse_redis_value(Display(rv))]
    /\ UNCHANGED <<rv, follow, streamVars, dbVars, serverVars>>

ParseTwo ==
    /\ parsed.of = "none"
    /\ parsed' = [of |-> "two", res |-> parse_redis_value(Display(rv) \o Display(follow))]
    /\ UNCHANGED <<rv, follow, streamVars, dbVars, serverVars>>

CodecNext == ParseOne \/ ParseTwo

(***************************************************************************)
(* SpecLength: a length encoding of an RDB file is read from two bytes     *)
(***************************************************************************)
LengthInit ==
    /\ rv \in [1..2 -> 0..MaxByte]
    /\ follow = NoVal
    /\ parsed = NotParsed

ReadLength ==
    /\ parsed = NotParsed
    /\ parsed' = [of |-> "LengthEncoding", res |-> LengthEncoding_read(rv)]
    /\ UNCHANGED <<rv, follow, streamVars, dbVars, serverVars>>

LengthNext == ReadLength

(***************************************************************************)
(* SpecDb: the key-value engine under set, get and incr while the          *)
(* monotonic clock moves                                                   *)
(***************************************************************************)
Texts == {<<"a">>, <<"7">>}

Pxs == {NoPx} \cup {SomePx(ms) : ms \in 0..MaxPx}

DbSet ==
    \E key \in Keys, s \in Texts, px \in Pxs :
        /\ store' = db_set(store, key, StringValue(s), px, instant)
        /\ answer' = [op |-> "set", key |-> key, val |-> NoneValue, at |-> instant]
        /\ written' = [written EXCEPT ![key] = [ttl |-> px, at |-> instant, s |-> s]]
        /\ UNCHANGED <<instant, codecVars, streamVars, serverVars>>

DbGet ==
    \E key \in Keys :
        /\ LET r == db_get(store, key, instant)
           IN  /\ store' = r.store
               /\ answer' = [op |-> "get", key |-> key, val |-> r.val, at |-> instant]
        /\ UNCHANGED <<instant, written, codecVars, streamVars, serverVars>>

DbIncr ==
    \E key \in Keys :
      \E r \in {db_incr(store, key, overflow_checks)} :
        /\ ~r.panic
        /\ Len(r.val.mag) = 1 /\ DigitsValue(r.val.mag, 0) <= MaxCounter
        /\ store' = r.store
        /\ answer' = [op |-> "incr", key |-> key,
                      val |-> IF r.ok THEN SomeValue(StringValue(I64ToString(r.val)))
                              ELSE NoneValue,
                      at |-> instant]
        /\ written' =
              IF key \notin DOMAIN store
              THEN [written EXCEPT ![key] = [ttl |-> NoPx, at |-> instant, s |-> <<"1">>]]
              ELSE IF r.ok
              THEN [written EXCEPT ![key].s = I64ToString(r.val)]
              ELSE written
        /\ UNCHANGED <<instant, codecVars, streamVars, serverVars>>

InstantAdvance ==
    /\ instant < MaxInstant
    /\ instant' = instant + 1
    /\ UNCHANGED <<store, answer, written, codecVars, streamVars, serverVars>>

DbNext == DbSet \/ DbGet \/ DbIncr \/ InstantAdvance

(***************************************************************************)
(* SpecIncr: INCR executed on keys that are absent, hold strings (integers *)
(* up to the ends of the range of i64, and texts that are none) or hold a  *)
(* stream                                                                  *)
(***************************************************************************)
MaxIncrs == 3

IncrTexts ==
    {<<"7">>, <<"9", "9">>, <<"-", "1">>, <<"-", "1", "0">>, <<"+", "0", "5">>, <<"a">>, <<>>,
     <<"-">>, I64_MAX, MagPred(I64_MAX), I64_MIN, <<"-">> \o I64_MIN,
     <<"-">> \o MagSucc(I64_MIN)}

NoIncr ==
    [op |-> "none", key |-> "k1", val |-> NoneValue, at |-> 0, before |-> EmptyStore,
     reply |-> ExecErr(EmptyStore), count |-> 0]

IncrInit ==
    /\ store = EmptyStore
    /\ instant = 0
    /\ answer = NoIncr
    /\ written = [k \in Keys |-> NotWritten]

IncrSet ==
    \E key \in Keys, s \in IncrTexts :
      \E r \in {execute(RedisCommand("Set", key, s, NoPx, 0, 0, NoFields), store, instant,
                        unix_ms, processed_bytes, info, overflow_checks)} :
        /\ exited = "running"
        /\ store' = r.store
        /\ answer' = [NoIncr EXCEPT !.op = "SET", !.key = key, !.count = answer.count]
        /\ UNCHANGED <<instant, written, codecVars, streamVars, serverVars>>

IncrXadd ==
    \E key \in Keys :
      \E r \in {execute(RedisCommand("Xadd", key, <<"1", "-", "1">>, NoPx, 0, 0,
                                     [f \in {"f1"} |-> "v1"]),
                        store, instant, unix_ms, processed_bytes, info, overflow_checks)} :
        /\ exited = "running"
        /\ key \notin DOMAIN store
        /\ store' = r.store
        /\ answer' = [NoIncr EXCEPT !.op = "XADD", !.key = key, !.count = answer.count]
        /\ UNCHANGED <<instant, written, codecVars, streamVars, serverVars>>

IncrIncr ==
    \E key \in Keys :
      \E r \in {execute(Command1("Incr", key), store, instant, unix_ms, processed_bytes, info,
                        overflow_checks)} :
        /\ exited = "running"
        /\ answer.count < MaxIncrs
        /\ store' = r.store
        /\ answer' = [answer EXCEPT !.op = "INCR", !.key = key, !.before = store, !.reply = r,
                                    !.count = @ + 1]
        /\ exited' = IF r.kind = "panic" THEN "panicked" ELSE exited
        /\ UNCHANGED <<instant, written, codecVars, streamVars, state, info, overflow_checks,
                       ongoing_transacations, replicas, processed_bytes, token_track,
                       connections, waiting_connection, sock, since_poll, to_master, ev>>

IncrNext == IncrSet \/ IncrXadd \/ IncrIncr

(***************************************************************************)
(* SpecXadd: XADD executed on one key with every kind of id, while the     *)
(* system clock moves                                                      *)
(***************************************************************************)
NoXaddCommand ==
    [op |-> "none", key |-> "k1", arg |-> <<>>, at |-> 0, before |-> EmptyStore,
     reply |-> ExecErr(EmptyStore)]

XaddInit ==
    /\ store = EmptyStore
    /\ instant = 0
    /\ answer = NoXaddCommand
    /\ written = [k \in Keys |-> NotWritten]

EntriesOf(st, key) ==
    IF key \in DOMAIN st /\ st[key].value.type = "Stream" THEN st[key].value.entries ELSE <<>>

XaddExecute ==
    \E value \in IdSpecs, fields \in Stores :
      \E r \in {execute(RedisCommand("Xadd", "k1", value, NoPx, 0, 0, fields), store, instant,
                        unix_ms, processed_bytes, info, overflow_checks)} :
        /\ Len(EntriesOf(store, "k1")) < MaxEntries
        /\ store' = r.store
        /\ answer' = [op |-> "XADD", key |-> "k1", arg |-> value, at |-> unix_ms,
                      before |-> store, reply |-> r]
        /\ UNCHANGED <<instant, written, codecVars, streamVars, serverVars>>

XaddNext == XaddExecute \/ ClockAdvance

(***************************************************************************)
(* XADD with several fields and XRANGE - + on the key Key: written records *)
(* under each id the fields and values as the client gave them             *)
(***************************************************************************)
FieldLists ==
    {<<<<"f">>, <<"a">>>>,
     <<<<"f">>, <<"a">>, <<"g">>, <<"b">>>>,
     <<<<"g">>, <<"b">>, <<"f">>, <<"a">>>>,
     <<<<"f">>, <<"a", " ", "b">>>>}

NoFieldsCommand == [op |-> "none", reply |-> ExecErr(EmptyStore)]

NoneGiven == [id \in {} |-> <<>>]

FieldsInit ==
    /\ store = EmptyStore
    /\ instant = 0
    /\ answer = NoFieldsCommand
    /\ written = NoneGiven

FieldsXadd ==
    \E given \in FieldLists :
      \E c \in {try_from(array_of_bulkstrings_from(
                            <<W_XADD, Key, NatToString(Len(EntriesOf(store, Key)) + 1)>>
                            \o given))} :
        \E r \in {execute(c.cmd, store, instant, unix_ms, processed_bytes, info,
                          overflow_checks)} :
          /\ Len(EntriesOf(store, Key)) < MaxFieldEntries
          /\ c.ok
          /\ r.kind = "ok"
          /\ store' = r.store
          /\ answer' = [op |-> "XADD", reply |-> r]
          /\ written' = [id \in DOMAIN written \cup {r.val.s} |->
                            IF id = r.val.s THEN given ELSE written[id]]
          /\ UNCHANGED <<instant, codecVars, streamVars, serverVars>>

IterationOrders(entries) ==
    {orders \in [1..Len(entries) ->
                    UNION {Orders(DOMAIN entries[i].store) : i \in 1..Len(entries)}] :
        \A i \in 1..Len(entries) : orders[i] \in Orders(DOMAIN entries[i].store)}

FieldsXrange ==
    \E orders \in IterationOrders(EntriesOf(store, Key)) :
      \E r \in {execute_xrange(store, Key, <<"-">>, <<"+">>, instant, unix_ms, orders)} :
        /\ store' = r.store
        /\ answer' = [op |-> "XRANGE", reply |-> r]
        /\ UNCHANGED <<instant, written, codecVars, streamVars, serverVars>>

FieldsNext == FieldsXadd \/ FieldsXrange

(***************************************************************************)
(* SET with and without PX, GET, KEYS * and the passing of time            *)
(***************************************************************************)
KeyNames == {<<"k">>, <<"j">>, <<"a", " ", "b">>}

KeysPxs == {NoPx, SomePx(1)}

NoKeysCommand == [op |-> "none", before |-> EmptyStore, at |-> 0, reply |-> ExecErr(EmptyStore)]

KeysInit ==
    /\ store = EmptyStore
    /\ instant = 0
    /\ answer = NoKeysCommand
    /\ written = NoneGiven

KeysSet ==
    \E key \in KeyNames, px \in KeysPxs :
      \E r \in {execute(RedisCommand("Set", key, <<"v">>, px, 0, 0, NoFields), store, instant,
                        unix_ms, processed_bytes, info, overflow_checks)} :
        /\ store' = r.store
        /\ answer' = [op |-> "SET", before |-> store, at |-> instant, reply |-> r]
        /\ UNCHANGED <<instant, written, codecVars, streamVars, serverVars>>

KeysGet ==
    \E key \in KeyNames :
      \E r \in {execute(Command1("Get", key), store, instant, unix_ms, processed_bytes, info,
                        overflow_checks)} :
        /\ store' = r.store
        /\ answer' = [op |-> "GET", before |-> store, at |-> instant, reply |-> r]
        /\ UNCHANGED <<instant, written, codecVars, streamVars, serverVars>>

KeysExecute ==
    \E order \in Orders(DOMAIN store) :
      \E r \in {execute_keys(store, order)} :
        /\ store' = r.store
        /\ answer' = [op |-> "KEYS", before |-> store, at |-> instant, reply |-> r]
        /\ UNCHANGED <<instant, written, codecVars, streamVars, serverVars>>

KeysNext == KeysSet \/ KeysGet \/ KeysExecute \/ InstantAdvance

(***************************************************************************)
(* The event loop of main.rs with handle_connection of                     *)
(* connection_handler.rs: one action per kind of event of an iteration,    *)
(* one for the end of the iteration, and the environment's steps           *)
(***************************************************************************)
ReadOk(bytes) == [ok |-> TRUE, closed |-> FALSE, bytes |-> bytes]
ReadClosed == [ok |-> TRUE, closed |-> TRUE, bytes |-> <<>>]
ReadError == [ok |-> FALSE, closed |-> FALSE, bytes |-> <<>>]

\* what receive_data can return on the socket of a token
Reads(token, inputs) ==
    IF sock[token] = "reset" THEN {ReadError}
    ELSE {ReadOk(bytes) : bytes \in inputs} \cup {ReadClosed}

\* the frames of a read, as the peer delimited them
RECURSIVE Frames(_)
Frames(input) ==
    IF input = <<>> THEN <<>>
    ELSE LET Parsed(p) ==
                 IF p.kind # "ok" THEN <<input>>
                 ELSE <<SubSeq(input, 1, Len(input) - Len(p.rest))>> \o Frames(p.rest)
         IN  Parsed(decode(input))

\* the db as handle_connection finds it
Db ==
    [state |-> state, info |-> info, store |-> store,
     ongoing_transacations |-> ongoing_transacations, replicas |-> replicas,
     processed_bytes |-> processed_bytes, overflow_checks |-> overflow_checks,
     wrote |-> <<>>,
     sent |-> [t \in {replicas[i].token : i \in 1..Len(replicas)} |-> <<>>],
     handled |-> <<>>, sets |-> <<>>, results |-> <<>>]

WithinBounds(d, max_bytes, max_queue) ==
    /\ d.processed_bytes <= max_bytes
    /\ \A t \in DOMAIN d.ongoing_transacations : Len(d.ongoing_transacations[t]) <= max_queue

Without(f, t) == [x \in DOMAIN f \ {t} |-> f[x]]

\* main.rs 99-127: a connection is accepted and gets the next client token
Accept(max_clients) ==
    /\ exited = "running"
    /\ token_track.unique_token < FIRST_UNIQUE_TOKEN + max_clients
    /\ LET token == token_track.unique_token
       IN  /\ token_track' = next_unique_token(token_track)
           /\ connections' = connections \cup {token}
           /\ sock' = [t \in DOMAIN sock \cup {token} |-> IF t = token THEN "open" ELSE sock[t]]
           /\ ev' = [NoEvent EXCEPT !.kind = "accept", !.token = token, !.was = state.name]
    /\ UNCHANGED <<state, info, overflow_checks, ongoing_transacations, replicas, processed_bytes,
                   waiting_connection, exited, since_poll, to_master, store, instant, answer,
                   written, codecVars, streamVars>>

\* a panic ends the process where it stands
Panicked(event) ==
    /\ exited' = "panicked"
    /\ ev' = event
    /\ UNCHANGED <<state, info, overflow_checks, ongoing_transacations, replicas, processed_bytes, token_track,
                   connections, waiting_connection, sock, since_poll, to_master, store,
                   instant, answer, written, codecVars, streamVars>>

\* the step the event loop takes for a MULTI, which leaves the handler with
\* state InitiatingTransaction: a queue for the connection, the reply +OK, Ready
InitiateTransaction(token, frames, d) ==
    LET w == write_all(d, sock[token] = "open", Display(SimpleString(W_OK)))
    IN  /\ state' = Ready
        /\ replicas' = d.replicas
        /\ ongoing_transacations' =
              [t \in DOMAIN d.ongoing_transacations \cup {token} |->
                  IF t = token THEN <<>> ELSE d.ongoing_transacations[t]]
        /\ ev' = Event("client", token, frames, w.d, "ok")
        /\ UNCHANGED <<connections, waiting_connection, sock, token_track, exited>>

\* main.rs 171-191: what the loop does with (done, register)
AfterHandler(token, done, register, d) ==
    IF done
    THEN /\ connections' = connections \ {token}
         /\ state' = d.state
         /\ replicas' = d.replicas
         /\ IF d.state.name = "Waiting"
            THEN waiting_connection' = SomeToken(token) /\ sock' = sock
            ELSE waiting_connection' = waiting_connection /\ sock' = Without(sock, token)
         /\ UNCHANGED <<token_track, exited>>
    ELSE IF register
    THEN LET n == next_replica_token(token_track)
             replica_token == token_track.replica_token
         IN  /\ connections' = connections \ {token}
             /\ state' = d.state
             /\ token_track' = n.track
             /\ exited' = IF n.panic THEN "panicked" ELSE exited
             /\ replicas' = register_replica(d.replicas, replica_token)
             /\ sock' = [t \in (DOMAIN sock \ {token}) \cup {replica_token} |->
                            IF t = replica_token THEN sock[token] ELSE sock[t]]
             /\ UNCHANGED waiting_connection
    ELSE /\ state' = d.state
         /\ replicas' = d.replicas
         /\ UNCHANGED <<connections, waiting_connection, sock, token_track, exited>>

\* main.rs 140-192: an event on the socket of a client
ClientEvent(inputs, max_bytes, max_queue) ==
    \E token \in connections :
      \E read \in Reads(token, inputs) :
        /\ exited = "running"
        /\ IF state.name = "Waiting"
           THEN /\ ev' = Event("ignored", token, <<>>, Db, "ok")
                /\ UNCHANGED <<state, info, overflow_checks, ongoing_transacations, replicas, processed_bytes,
                               token_track, connections, waiting_connection, sock, exited,
                               since_poll, to_master, store, instant, answer, written,
                               codecVars, streamVars>>
           ELSE \E r \in {handle_connection(token, FALSE, sock[token] = "open", sock, instant,
                                              unix_ms, read, Db)} :
                    IF r.kind = "panic"
                    THEN Panicked(Event("client", token, Frames(read.bytes), r.d, r.kind))
                    ELSE /\ WithinBounds(r.d, max_bytes, max_queue)
                         /\ store' = r.d.store
                         /\ processed_bytes' = r.d.processed_bytes
                         /\ IF r.d.state.name = "InitiatingTransaction"
                            THEN InitiateTransaction(token, Frames(read.bytes), r.d)
                            ELSE /\ ev' = Event("client", token, Frames(read.bytes), r.d,
                                                r.kind)
                                 /\ ongoing_transacations' = r.d.ongoing_transacations
                                 /\ AfterHandler(token, r.kind = "err" \/ r.done, r.register,
                                                 r.d)
                         /\ UNCHANGED <<info, overflow_checks, since_poll, to_master, instant, answer, written,
                                        codecVars, streamVars>>

\* main.rs 140-169: an event on the socket of a registered replica
ReplicaEvent ==
    \E i \in 1..Len(replicas) :
        /\ exited = "running"
        /\ IF state.name = "Waiting"
           THEN /\ state.obtained < MaxObtained
                /\ state' = [state EXCEPT !.obtained = @ + 1]
                /\ replicas' = mark_replica_as_uptodate(replicas, replicas[i].token)
           ELSE UNCHANGED <<state, replicas>>
        /\ ev' = Event("replica", replicas[i].token, <<>>, Db, "ok")
        /\ UNCHANGED <<info, overflow_checks, ongoing_transacations, processed_bytes, token_track, connections,
                       waiting_connection, sock, exited, since_poll, to_master, store,
                       instant, answer, written, codecVars, streamVars>>

\* main.rs 196-213: the end of an iteration answers a WAIT that is due
EndOfIteration ==
    /\ exited = "running"
    /\ since_poll' = 0
    /\ IF /\ state.name = "Waiting"
          /\ \/ state.obtained >= state.requested
             \/ state.start + state.timeout <= instant
          /\ waiting_connection.some
       THEN \E w \in {write_all(Db, sock[waiting_connection.token] = "open",
                                 Display(Integer(state.obtained)))} :
                /\ waiting_connection' = NoToken
                /\ ev' = Event("end", waiting_connection.token, <<>>, w.d,
                               IF w.ok THEN "ok" ELSE "err")
                /\ sock' = Without(sock, waiting_connection.token)
                /\ IF w.ok THEN state' = Ready /\ exited' = exited
                   ELSE state' = state /\ exited' = "returned"
       ELSE /\ ev' = Event("end", 0, <<>>, Db, "ok")
            /\ UNCHANGED <<state, waiting_connection, sock, exited>>
    /\ UNCHANGED <<info, overflow_checks, ongoing_transacations, replicas, processed_bytes, token_track,
                   connections, to_master, store, instant, answer, written, codecVars,
                   streamVars>>

\* main.rs 94: the poll returns after PollTimeout at the latest, so while the
\* process runs no more than that passes between the ends of two iterations
TimePasses ==
    /\ instant + PollTimeout <= MaxServerInstant
    /\ exited = "running" => since_poll = 0
    /\ instant' = instant + PollTimeout
    /\ since_poll' = IF exited = "running" THEN PollTimeout ELSE since_poll
    /\ ev' = [NoEvent EXCEPT !.kind = "time"]
    /\ UNCHANGED <<state, info, overflow_checks, ongoing_transacations, replicas, processed_bytes, token_track,
                   connections, waiting_connection, sock, exited, to_master, store,
                   answer, written, codecVars, streamVars>>

\* the peer of a connection resets it: reads and writes on the socket fail
SocketReset ==
    \E token \in DOMAIN sock :
        /\ sock[token] = "open"
        /\ sock' = [sock EXCEPT ![token] = "reset"]
        /\ ev' = [NoEvent EXCEPT !.kind = "reset", !.token = token]
        /\ UNCHANGED <<state, info, overflow_checks, ongoing_transacations, replicas, processed_bytes,
                       token_track, connections, waiting_connection, exited, since_poll,
                       to_master, store, instant, answer, written, codecVars, streamVars>>

\* main.rs 128-136: an event on the socket of the master; what the handler
\* returns is dropped.  to_master collects what the handshake arms write
MasterEvent(inputs) ==
    \E read \in Reads(MASTER, inputs) :
        /\ exited = "running"
        /\ \E r \in {handle_connection(MASTER, TRUE, sock[MASTER] = "open", sock, instant,
                                        unix_ms, read, Db)} :
              IF r.kind = "panic"
              THEN Panicked(Event("master", MASTER, Frames(read.bytes), r.d, r.kind))
              ELSE /\ r.d.processed_bytes <= MaxReplicaBytes
                   /\ state' = r.d.state
                   /\ store' = r.d.store
                   /\ processed_bytes' = r.d.processed_bytes
                   /\ to_master' =
                         IF state.name \in {"BeforePing", "BeforeReplConf1", "BeforeReplConf2"}
                         THEN to_master \o [i \in 1..Len(r.d.wrote) |-> r.d.wrote[i].bytes]
                         ELSE to_master
                   /\ ev' = Event("master", MASTER, Frames(read.bytes), r.d, r.kind)
                   /\ UNCHANGED <<info, overflow_checks, ongoing_transacations, replicas, token_track,
                                  connections, waiting_connection, sock, exited, since_poll,
                                  instant, answer, written, codecVars, streamVars>>

ServerNext ==
    \/ Accept(MaxClients)
    \/ ClientEvent(ClientInputs, MaxProcessedBytes, MaxQueue)
    \/ EndOfIteration

ReplicationNext ==
    \/ Accept(MaxReplicationClients)
    \/ ClientEvent(ReplicationInputs, MaxReplicatedBytes, MaxReplicatedQueue)
    \/ ReplicaEvent
    \/ EndOfIteration
    \/ TimePasses
    \/ SocketReset

AckNext ==
    \/ Accept(MaxAckClients)
    \/ ClientEvent(AckInputs, MaxAckBytes, MaxAckQueue)
    \/ ReplicaEvent
    \/ EndOfIteration
    \/ TimePasses
    \/ SocketReset

ReplicaClientsNext ==
    \/ MasterEvent(MasterInputs)
    \/ Accept(MaxReplicaClients)
    \/ ClientEvent(ReplicaClientInputs, MaxReplicaClientBytes, MaxReplicaClientQueue)

SplitNext ==
    \/ Accept(MaxSplitClients)
    \/ ClientEvent(SplitInputs, MaxSplitBytes, MaxSplitQueue)

CommandsNext ==
    \/ Accept(MaxCommandClients)
    \/ ClientEvent(CommandInputs, MaxCommandBytes, MaxCommandQueue)

\* connections that come and go, each of them a replica once it sends PSYNC
TokenInputs == {Display(PsyncFrame)}

TokensAccept == Cardinality(connections) < MaxPending /\ Accept(MaxTokenClients)

TokensNext ==
    \/ TokensAccept
    \/ ClientEvent(TokenInputs, MaxTokenBytes, MaxTokenQueue)

(***************************************************************************)
(* A master with clients that write, and one replica of it that has sent   *)
(* PSYNC.  answer is the replica: its state, its key space, the reads that *)
(* are on their way to it, and the master's key space when the master      *)
(* answered the PSYNC.                                                     *)
(***************************************************************************)
SyncFrames == {SetFrame(Key, <<"a">>), PsyncFrame}

SyncInputs == {Display(f) : f \in SyncFrames}

SyncReplica(name, st, inbox, master_store) ==
    [op |-> name, state |-> IF name = "Ready" THEN Ready ELSE
                            IF name = "BeforeRdbFile" THEN BeforeRdbFile ELSE BeforePsync,
     store |-> st, inbox |-> inbox, master_store |-> master_store]

SyncStore ==
    /\ store = EmptyStore
    /\ instant = 0
    /\ answer = SyncReplica("BeforePsync", EmptyStore, <<>>, EmptyStore)
    /\ written = [k \in Keys |-> NotWritten]

RECURSIVE WroteBytes(_, _)
WroteBytes(wrote, i) ==
    IF i > Len(wrote) THEN <<>> ELSE wrote[i].bytes \o WroteBytes(wrote, i + 1)

\* what the master wrote for the PSYNC reaches the replica: the +FULLRESYNC line,
\* and after the master's pause the snapshot
SyncTravels ==
    /\ ev.kind = "client"
    /\ ev.handled = <<Display(PsyncFrame)>>
    /\ ev.outcome = "ok"
    /\ answer.op = "BeforePsync"
    /\ answer.inbox = <<>>
    /\ answer.master_store = EmptyStore
    /\ Len(ev.wrote) = 3
    /\ answer' = [answer EXCEPT !.inbox = <<ev.wrote[1].bytes, WroteBytes(ev.wrote, 2)>>,
                                !.master_store = store]
    /\ ev' = [NoEvent EXCEPT !.kind = "travels"]
    /\ UNCHANGED <<state, info, overflow_checks, ongoing_transacations, replicas,
                   processed_bytes, token_track, connections, waiting_connection, sock, exited,
                   since_poll, to_master, store, instant, written, codecVars, streamVars>>

\* the replica's db as its handler finds it
ReplicaDb ==
    [Db EXCEPT !.state = answer.state, !.info = DbInfo(role_slave, Port),
               !.store = answer.store, !.ongoing_transacations = NoTransactions,
               !.replicas = <<>>, !.processed_bytes = 0, !.sent = NoSockets]

\* an event on the replica's socket of its master
SyncReplicaEvent ==
    /\ answer.inbox # <<>>
    /\ \E r \in {handle_connection(MASTER, TRUE, TRUE, NoSockets, instant, unix_ms,
                                     ReadOk(Head(answer.inbox)), ReplicaDb)} :
          /\ r.kind = "ok"
          /\ answer' = SyncReplica(r.d.state.name, r.d.store, Tail(answer.inbox),
                                   answer.master_store)
    /\ ev' = [NoEvent EXCEPT !.kind = "replica side"]
    /\ UNCHANGED <<state, info, overflow_checks, ongoing_transacations, replicas,
                   processed_bytes, token_track, connections, waiting_connection, sock, exited,
                   since_poll, to_master, store, instant, written, codecVars, streamVars>>

SyncNext ==
    \/ Accept(MaxSyncClients)
    \/ ClientEvent(SyncInputs, MaxSyncBytes, MaxSyncQueue)
    \/ SyncTravels
    \/ SyncReplicaEvent

(***************************************************************************)
(* Clients whose bytes wait in the socket until the event loop reads them. *)
(* written.unread holds for each connection the bytes its peer has sent    *)
(* and the server has not read; written.closed holds the connections whose *)
(* peer has closed; written.ready holds the tokens for which poll has      *)
(* reported an event that the loop has not come to yet.  The sockets are   *)
(* edge triggered: an event is reported when bytes or the end arrive.      *)
(***************************************************************************)
PendingFrames == {PingFrame, WaitFrame(0, PollTimeout)}

PendingInputs == {Display(f) : f \in PendingFrames}

PendingStore ==
    /\ store = EmptyStore
    /\ instant = 0
    /\ answer = NoAnswer
    /\ written = [unread |-> NoTransactions, ready |-> {}, closed |-> {}]

Unread(token) == IF token \in DOMAIN written.unread THEN written.unread[token] ELSE <<>>

\* the peer of a connection sends a command
PeerSends ==
    \E token \in connections, bytes \in PendingInputs :
        /\ exited = "running"
        /\ token \notin written.closed
        /\ Len(Frames(Unread(token))) < MaxUnread
        /\ written' = [unread |-> [t \in DOMAIN written.unread \cup {token} |->
                                      IF t = token THEN Unread(token) \o bytes
                                      ELSE written.unread[t]],
                       ready |-> written.ready \cup {token},
                       closed |-> written.closed]
        /\ ev' = [NoEvent EXCEPT !.kind = "sent", !.token = token]
        /\ UNCHANGED <<state, info, overflow_checks, ongoing_transacations, replicas,
                       processed_bytes, token_track, connections, waiting_connection, sock,
                       exited, since_poll, to_master, store, instant, answer, codecVars,
                       streamVars>>

\* the peer of a connection closes it, behind what it has sent
PeerCloses ==
    \E token \in connections :
        /\ exited = "running"
        /\ token \notin written.closed
        /\ written' = [written EXCEPT !.ready = @ \cup {token}, !.closed = @ \cup {token}]
        /\ ev' = [NoEvent EXCEPT !.kind = "closed", !.token = token]
        /\ UNCHANGED <<state, info, overflow_checks, ongoing_transacations, replicas,
                       processed_bytes, token_track, connections, waiting_connection, sock,
                       exited, since_poll, to_master, store, instant, answer, codecVars,
                       streamVars>>

\* ConnectionData::receive_data: all the bytes there are, and whether the read
\* met the end of the stream
receive_data(token) ==
    [ok |-> TRUE, closed |-> token \in written.closed, bytes |-> Unread(token)]

\* main.rs 140-192: the loop comes to the event of a client's token.  While
\* Waiting it goes on to the next event and reads nothing; otherwise the handler
\* reads all there is
PendingEvent ==
    \E token \in written.ready \cap connections :
        /\ exited = "running"
        /\ IF state.name = "Waiting"
           THEN /\ ev' = Event("ignored", token, <<>>, Db, "ok")
                /\ written' = [written EXCEPT !.ready = @ \ {token}]
                /\ UNCHANGED <<state, info, overflow_checks, ongoing_transacations, replicas,
                               processed_bytes, token_track, connections, waiting_connection,
                               sock, exited, since_poll, to_master, store, instant, answer,
                               codecVars, streamVars>>
           ELSE \E r \in {handle_connection(token, FALSE, sock[token] = "open", sock, instant,
                                              unix_ms, receive_data(token), Db)} :
                    /\ r.kind # "panic"
                    /\ r.d.state.name # "InitiatingTransaction"
                    /\ WithinBounds(r.d, MaxPendingBytes, MaxPendingQueue)
                    /\ store' = r.d.store
                    /\ processed_bytes' = r.d.processed_bytes
                    /\ ev' = Event("client", token, Frames(Unread(token)), r.d, r.kind)
                    /\ ongoing_transacations' = r.d.ongoing_transacations
                    /\ AfterHandler(token, r.kind = "err" \/ r.done, r.register, r.d)
                    /\ written' = [unread |-> [t \in DOMAIN written.unread |->
                                                  IF t = token THEN <<>> ELSE written.unread[t]],
                                   ready |-> written.ready \ {token},
                                   closed |-> written.closed]
                    /\ UNCHANGED <<info, overflow_checks, since_poll, to_master, instant,
                                   answer, codecVars, streamVars>>

PendingNext ==
    \/ Accept(MaxPendingClients)
    \/ PeerSends
    \/ PeerCloses
    \/ PendingEvent
    \/ EndOfIteration

SnapshotNext ==
    \/ MasterEvent(SnapshotInputs)
    \/ SocketReset

ReplicaNext ==
    \/ MasterEvent(MasterInputs)
    \/ SocketReset

(***************************************************************************)
(* The specifications                                                      *)
(***************************************************************************)
InitCodec == CodecInit /\ StreamIdle /\ DbIdle /\ ServerIdle

InitDb == DbInit /\ CodecIdle /\ StreamIdle /\ ServerIdle

InitStream == StreamInit /\ CodecIdle /\ DbIdle /\ ServerIdle

InitServer == MasterInit /\ ServerStore /\ CodecIdle /\ StreamIdle

InitReplica == ReplicaInit /\ ServerStore /\ CodecIdle /\ StreamIdle

InitIncr == IncrInit /\ CodecIdle /\ StreamIdle /\ ServerIdle

SpecCodec == InitCodec /\ [][CodecNext]_vars

SpecCommands == InitServer /\ [][CommandsNext]_vars

InitXadd == XaddInit /\ CodecIdle /\ StreamIdle /\ ServerIdle

SpecXadd == InitXadd /\ [][XaddNext]_vars

SpecIncr == InitIncr /\ [][IncrNext]_vars

SpecDb == InitDb /\ [][DbNext]_vars

SpecStream == InitStream /\ [][StreamNext]_vars

SpecServer == InitServer /\ [][ServerNext]_vars

SpecReplication == InitServer /\ [][ReplicationNext]_vars

SpecReplica == InitReplica /\ [][ReplicaNext]_vars

SpecAck == InitServer /\ [][AckNext]_vars

InitFields == FieldsInit /\ CodecIdle /\ StreamIdle /\ ServerIdle

SpecFields == InitFields /\ [][FieldsNext]_vars

InitKeys == KeysInit /\ CodecIdle /\ StreamIdle /\ ServerIdle

SpecKeys == InitKeys /\ [][KeysNext]_vars

InitXrange == XrangeInit /\ CodecIdle /\ DbIdle /\ ServerIdle

SpecXrange == InitXrange /\ [][XrangeNext]_vars

SpecSplit == InitServer /\ [][SplitNext]_vars

InitPending == MasterInit /\ PendingStore /\ CodecIdle /\ StreamIdle

\* an event that poll reported and the loop has not come to
EventOutstanding == exited = "running" /\ written.ready \cap connections # {}

\* the loop comes to every event poll reported, and to the end of each iteration
SpecPending ==
    /\ InitPending
    /\ [][PendingNext]_vars
    /\ ([]<>(~EventOutstanding) \/ []<><<PendingEvent>>_vars)
    /\ WF_vars(EndOfIteration)

InitSync == MasterInit /\ SyncStore /\ CodecIdle /\ StreamIdle

SpecSync == InitSync /\ [][SyncNext]_vars

InitLength == LengthInit /\ StreamIdle /\ DbIdle /\ ServerIdle

SpecLength == InitLength /\ [][LengthNext]_vars

SpecTokens == InitServer /\ [][TokensNext]_vars

SpecSnapshot == InitReplica /\ [][SnapshotNext]_vars

SpecReplicaClients == InitReplica /\ [][ReplicaClientsNext]_vars

(***************************************************************************)
(* C1: the round-trip law.  For every well-formed value rv,                *)
(* parse_redis_value of its serialisation returns rv and an empty rest,    *)
(* and of its serialisation followed by another value's it returns rv and  *)
(* exactly the follower's serialisation as the rest.                       *)
(***************************************************************************)
C1_RoundTrip ==
    /\ parsed.of = "one" => parsed.res = POk(<<>>, rv)
    /\ parsed.of = "two" =>
          /\ parsed.res = POk(Display(follow), rv)
          /\ Len(Display(rv)) + Len(parsed.res.rest) = Len(Display(rv) \o Display(follow))

\* a nested array followed by another value has been parsed back
C1_Witness ==
    /\ parsed.of = "two"
    /\ parsed.res.kind = "ok"
    /\ rv.t = "Array"
    /\ rv.n = 2
    /\ \E i \in 1..Len(rv.items) : rv.items[i].t = "Array" /\ rv.items[i].n = 1
    /\ \E i \in 1..Len(rv.items) : rv.items[i] = bulkstring_from(CRLF)

(***************************************************************************)
(* C2: stream monotonicity.  The stored entries are strictly increasing by *)
(* id in storage order, whichever appends produced them.                   *)
(***************************************************************************)
C2_StrictlyIncreasing ==
    \A i, j \in 1..Len(stream) :
        i < j => IdLess(stream[i].stream_id, stream[j].stream_id)

(***************************************************************************)
(* C3: expiration.  For a key stored by set with a ttl of D ms at time t0  *)
(* (and not stored anew since), a get at a time t >= t0 + D returns None   *)
(* and leaves the store without an entry for the key; a get at a time      *)
(* t < t0 + D returns the stored value.                                    *)
(***************************************************************************)
C3_Expiration ==
    answer.op = "get" /\ written[answer.key].ttl.some =>
        LET w == written[answer.key]
        IN  /\ answer.at >= w.at + w.ttl.ms =>
                  answer.val = NoneValue /\ answer.key \notin DOMAIN store
            /\ answer.at < w.at + w.ttl.ms =>
                  answer.val = SomeValue(StringValue(w.s))

\* a get exactly at the deadline of a positive ttl has removed the key
C3_Witness ==
    /\ answer.op = "get"
    /\ written[answer.key].ttl.some
    /\ written[answer.key].ttl.ms > 0
    /\ answer.at = written[answer.key].at + written[answer.key].ttl.ms
    /\ answer.key \notin DOMAIN store

(***************************************************************************)
(* C4: transaction atomic reply.  An EXEC on a connection with an open     *)
(* transaction is answered with exactly one write, the Array whose length  *)
(* is the number of queued commands and whose elements are their results   *)
(* in queue order, whatever the queued commands are.                       *)
(***************************************************************************)
C4_ExecAnswersArray ==
    (ev.kind = "client" /\ ev.in_transaction /\ ev.frames = <<Display(ExecFrame)>>) =>
        /\ Len(ev.results) = Len(ev.queue)
        /\ Len(ev.wrote) = 1
        /\ ev.wrote[1].bytes = Display(Array(Len(ev.queue), ev.results))

(***************************************************************************)
(* C5: WAIT liveness.  The server is never still Waiting later than the    *)
(* timeout of the WAIT plus one poll interval after the WAIT was issued.   *)
(***************************************************************************)
C5_WaitAnswered ==
    state.name = "Waiting" => instant <= state.start + state.timeout + PollTimeout

(***************************************************************************)
(* C6: forwarding fidelity.  The SET frames an event of a client executed  *)
(* are what each registered replica with a working socket was sent by that *)
(* event, byte for byte and in the order of execution (a GETACK aside).    *)
(***************************************************************************)
C6_SetsReachReplicas ==
    ev.kind = "client" =>
        \A t \in DOMAIN ev.sent :
            (t \in DOMAIN sock /\ sock[t] = "open") =>
                SelectSeq(ev.sent[t], LAMBDA b : b # Display(GetAckFrame)) = ev.sets

(***************************************************************************)
(* C7: the handshake of a replica.  What the handshake wrote to the master *)
(* is a prefix of PING, REPLCONF listening-port <port>, REPLCONF capa      *)
(* psync2, PSYNC ? -1, no longer than the replies received allow and as    *)
(* long as that while the socket works; no handshake message is written    *)
(* again afterwards; and every step leaves the connection state where it   *)
(* is or moves it to the next state of BeforePing, BeforeReplConf1,        *)
(* BeforeReplConf2, BeforePsync, BeforeRdbFile, Ready.                     *)
(***************************************************************************)
HandshakeOrder ==
    <<Display(PingFrame), Display(ReplConfPortFrame(Port)), Display(ReplConfCapaFrame),
      Display(PsyncFrame)>>

Rank(name) ==
    CASE name = "BeforePing" -> 1
      [] name = "BeforeReplConf1" -> 2
      [] name = "BeforeReplConf2" -> 3
      [] name = "BeforePsync" -> 4
      [] name = "BeforeRdbFile" -> 5
      [] name = "Ready" -> 6
      [] OTHER -> 0

Min(a, b) == IF a < b THEN a ELSE b

C7_HandshakeOrder ==
    /\ [](/\ Rank(state.name) >= 1
          /\ Len(to_master) <= Min(Rank(state.name), 4)
          /\ to_master = SubSeq(HandshakeOrder, 1, Len(to_master))
          /\ sock[MASTER] = "open" => Len(to_master) = Min(Rank(state.name), 4)
          /\ (ev.kind = "master" /\ Rank(ev.was) >= 4) =>
                \A i \in 1..Len(ev.wrote) :
                    \A j \in 1..4 : ev.wrote[i].bytes # HandshakeOrder[j])
    /\ [][Rank(state'.name) \in {Rank(state.name), Rank(state.name) + 1}]_vars

\* the handshake has run to its end: the four messages are out, the snapshot is
\* read and the replica is Ready
C7_Witness ==
    /\ ev.kind = "master"
    /\ ev.was = "BeforeRdbFile"
    /\ state.name = "Ready"
    /\ to_master = HandshakeOrder

(***************************************************************************)
(* C8: a silent replica.  Handling frames of its master in Ready state,    *)
(* the replica writes one REPLCONF ACK <n> for each REPLCONF GETACK * and  *)
(* nothing else.                                                           *)
(***************************************************************************)
IsAck(bytes) ==
    \E n \in 0..MaxReplicaBytes :
        bytes = Display(array_of_bulkstrings_from(<<W_REPLCONF, W_ACK, NatToString(n)>>))

C8_SilentExceptGetAck ==
    (ev.kind = "master" /\ ev.was \in {"Ready", "BeforeRdbFile"}) =>
        /\ \A i \in 1..Len(ev.wrote) :
              /\ ev.wrote[i].frame \in 1..Len(ev.handled)
              /\ ev.handled[ev.wrote[i].frame] = Display(GetAckFrame)
              /\ IsAck(ev.wrote[i].bytes)
        /\ \A i, j \in 1..Len(ev.wrote) : ev.wrote[i].frame = ev.wrote[j].frame => i = j

(***************************************************************************)
(* C9: error isolation.  Whatever happens on a connection, the event loop  *)
(* neither returns nor panics.                                             *)
(***************************************************************************)
C9_LoopKeepsRunning == exited = "running"

(***************************************************************************)
(* C10: per-connection ordering.  When the handler of a client in Ready    *)
(* state returns without an error, it has processed every frame of the     *)
(* read, in order, and written one reply for each, in the same order.      *)
(***************************************************************************)
C10_EveryFrameProcessed ==
    (ev.kind = "client" /\ ev.was = "Ready" /\ ev.outcome = "ok") =>
        /\ ev.handled = ev.frames
        /\ Len(ev.wrote) = Len(ev.frames)
        /\ \A i \in 1..Len(ev.wrote) : ev.wrote[i].frame = i

(***************************************************************************)
(* C11: incr.  On an absent key INCR stores "1" and returns 1; on a key    *)
(* holding a string that parses as an i64 n it stores the decimal string   *)
(* of n + 1 and returns n + 1; in every other case it answers an error and *)
(* leaves the stored value unchanged; a string stays a string.             *)
(***************************************************************************)
C11_Incr ==
    answer.op = "INCR" =>
        LET k == answer.key
            b == answer.before
            Parsed(n) ==
                IF n.ok
                THEN /\ answer.reply = ExecOk(Integer64(I64Succ(n.val)), store)
                     /\ store = [b EXCEPT ![k].value = StringValue(I64ToString(I64Succ(n.val)))]
                ELSE /\ answer.reply = ExecOk(SimpleError(ERR_NOT_INT), store)
                     /\ store = b
        IN  IF k \notin DOMAIN b
            THEN /\ answer.reply = ExecOk(Integer(1), store)
                 /\ store = Insert(b, k, DbValue(StringValue(<<"1">>), NoInstant))
            ELSE IF b[k].value.type = "String"
            THEN Parsed(ParseI64(b[k].value.s))
            ELSE /\ answer.reply = ExecOk(SimpleError(ERR_NOT_INT), store)
                 /\ store = b

(***************************************************************************)
(* C12: INCR at the end of the range.  On a key holding                    *)
(* 9223372036854775807 INCR answers the SimpleError 'ERR value is not an   *)
(* integer or out of range' and leaves the stored value unchanged; nothing *)
(* wrapped around is stored and the server does not abort.                 *)
(***************************************************************************)
C12_IncrAtMax ==
    (/\ answer.op = "INCR"
     /\ answer.key \in DOMAIN answer.before
     /\ answer.before[answer.key].value = StringValue(I64_MAX)) =>
        /\ exited = "running"
        /\ answer.reply = ExecOk(SimpleError(ERR_NOT_INT), answer.before)
        /\ store = answer.before

(***************************************************************************)
(* C13: wrong type.  A GET on a key holding a stream and an XADD on a key  *)
(* holding a string are answered with the SimpleError 'WRONGTYPE Operation *)
(* against a key holding the wrong kind of value'; the stored value is     *)
(* unchanged and the connection stays open.                                *)
(***************************************************************************)
WRONGTYPE == <<"W", "R", "O", "N", "G", "T", "Y", "P", "E", " ", "O", "p", "e", "r", "a", "t", "i", "o", "n", " ", "a", "g", "a", "i", "n", "s", "t", " ", "a", " ", "k", "e", "y", " ", "h", "o", "l", "d", "i", "n", "g", " ", "t", "h", "e", " ", "w", "r", "o", "n", "g", " ", "k", "i", "n", "d", " ", "o", "f", " ", "v", "a", "l", "u", "e">>

C13_WrongType ==
    [][(/\ ev'.kind = "client"
        /\ state.name = "Ready"
        /\ ~ev'.in_transaction
        /\ Key \in DOMAIN store
        /\ \/ /\ ev'.frames = <<Display(GetFrame(Key))>>
              /\ store[Key].value.type = "Stream"
           \/ /\ ev'.frames = <<Display(XaddFrame(Key, <<"1", "-", "1">>))>>
              /\ store[Key].value.type = "String") =>
            /\ exited' = "running"
            /\ ev'.wrote = <<[frame |-> 1, bytes |-> Display(SimpleError(WRONGTYPE))]>>
            /\ store' = store
            /\ ev'.token \in connections']_vars

(***************************************************************************)
(* C14: rejected appends.  An XADD whose id is less than or equal to the   *)
(* last id of the stream leaves the entries of the stream unchanged and is *)
(* answered 'ERR The ID specified in XADD must be greater than 0-0' when   *)
(* the id is 0-0 and 'ERR The ID specified in XADD is equal or smaller     *)
(* than the target stream top item' for every other such id.               *)
(***************************************************************************)
C14_RejectedAppend ==
    answer.op = "XADD" =>
        LET before == EntriesOf(answer.before, answer.key)
            Given(c) ==
                (c.ok /\ IdLessEq(c.id, get_last_stream_id(before))) =>
                    /\ answer.reply.kind = "ok"
                    /\ answer.reply.val =
                          SimpleError(IF c.id = StreamId(0, 0) THEN ERR_XADD_ZERO
                                      ELSE ERR_XADD_SMALL)
                    /\ EntriesOf(store, answer.key) = before
        IN  Given(create_stream_id(before, answer.arg, answer.at))

\* an XADD with the id the stream ends with has been rejected
C14_Witness ==
    /\ answer.op = "XADD"
    /\ Len(EntriesOf(answer.before, answer.key)) = 2
    /\ answer.arg = IdToString(get_last_stream_id(EntriesOf(answer.before, answer.key)))
    /\ answer.reply.val = SimpleError(ERR_XADD_SMALL)
    /\ EntriesOf(store, answer.key) = EntriesOf(answer.before, answer.key)

(***************************************************************************)
(* C15: mapping errors.  When a frame from a client in Ready state maps to *)
(* no command, the client is sent one SimpleError reply and no key, no     *)
(* replica flag and no transaction queue is modified.                      *)
(***************************************************************************)
IsSimpleError(bytes) ==
    LET Parsed(p) == p.kind = "ok" /\ p.rest = <<>> /\ p.val.t = "SimpleError"
    IN  Parsed(parse_redis_value(bytes))

C15_MappingError ==
    [][(/\ ev'.kind = "client"
        /\ state.name = "Ready"
        /\ \E f \in UnmappedFrames : ev'.frames = <<Display(f)>>) =>
            /\ exited' = "running"
            /\ Len(ev'.wrote) = 1
            /\ IsSimpleError(ev'.wrote[1].bytes)
            /\ store' = store
            /\ replicas' = replicas
            /\ ongoing_transacations' = ongoing_transacations]_vars

(***************************************************************************)
(* C16: an open transaction.  While a transaction is open on a connection, *)
(* a command of that connection other than EXEC and DISCARD is appended to *)
(* the queue, answered +QUEUED and leaves the key space alone; EXEC makes  *)
(* the queued commands take effect in queue order and ends the             *)
(* transaction; DISCARD ends it with the key space untouched.              *)
(***************************************************************************)
RECURSIVE Effects(_, _)
Effects(st, queue) ==
    IF queue = <<>> THEN st
    ELSE Effects(execute(Head(queue).command, st, instant, unix_ms, processed_bytes, info,
                         overflow_checks).store,
                 Tail(queue))

C16_OpenTransaction ==
    [][(/\ ev'.kind = "client"
        /\ state.name = "Ready"
        /\ ev'.token \in DOMAIN ongoing_transacations
        /\ Len(ev'.frames) = 1
        /\ try_from(decode(ev'.frames[1]).val).ok) =>
            LET token == ev'.token
                frame == ev'.frames[1]
                queue == ongoing_transacations[token]
            IN  CASE frame = Display(ExecFrame) ->
                       /\ store' = Effects(store, queue)
                       /\ token \notin DOMAIN ongoing_transacations'
                  [] frame = Display(DiscardFrame) ->
                       /\ store' = store
                       /\ token \notin DOMAIN ongoing_transacations'
                  [] OTHER ->
                       /\ token \in DOMAIN ongoing_transacations'
                       /\ Len(ongoing_transacations'[token]) = Len(queue) + 1
                       /\ SubSeq(ongoing_transacations'[token], 1, Len(queue)) = queue
                       /\ ongoing_transacations'[token][Len(queue) + 1].frame = frame
                       /\ ev'.wrote = <<[frame |-> 1, bytes |-> Display(SimpleString(W_QUEUED))]>>
                       /\ store' = store]_vars

C18_WithoutMulti ==
    [][(/\ ev'.kind = "client"
        /\ ev'.was = "Ready"
        /\ ~ev'.in_transaction
        /\ ev'.frames # <<>>
        /\ ev'.frames[1] \in {Display(ExecFrame), Display(DiscardFrame)})
       => /\ ev'.outcome = "ok"
          /\ ev'.wrote =
                <<[frame |-> 1,
                   bytes |-> IF ev'.frames[1] = Display(ExecFrame)
                             THEN <<"-", "E", "R", "R", " ", "E", "X", "E", "C", " ", "w", "i", "t", "h", "o", "u", "t", " ", "M", "U", "L", "T", "I", "CR", "LF">>
                             ELSE <<"-", "E", "R", "R", " ", "D", "I", "S", "C", "A", "R", "D", " ", "w", "i", "t", "h", "o", "u", "t", " ", "M", "U", "L", "T", "I", "CR", "LF">>]>>
          /\ ev'.results = <<>>
          /\ ev'.sets = <<>>
          /\ store' = store
          /\ ongoing_transacations' = ongoing_transacations
          /\ state' = state
          /\ connections' = connections
          /\ processed_bytes' = processed_bytes]_vars

\* EXEC was refused on a connection without a transaction while the key space
\* held a key and another connection held a queued command
C18_Witness ==
    /\ ev.kind = "client"
    /\ ev.was = "Ready"
    /\ ~ev.in_transaction
    /\ ev.frames = <<Display(ExecFrame)>>
    /\ Len(ev.wrote) = 1
    /\ Key \in DOMAIN store
    /\ \E t \in DOMAIN ongoing_transacations : t # ev.token /\ ongoing_transacations[t] # <<>>

C20_GetAckTargets ==
    [][(/\ ev'.kind = "client"
        /\ ev'.was = "Ready"
        /\ ~ev'.in_transaction
        /\ ev'.frames = <<Display(WaitFrame(1, PollTimeout))>>)
       => /\ state'.name = "Waiting"
          /\ state'.obtained = Cardinality({i \in 1..Len(replicas) : replicas[i].up_to_date})
          /\ \A i \in 1..Len(replicas) :
                 ev'.sent[replicas[i].token] =
                     IF ~replicas[i].up_to_date /\ sock[replicas[i].token] = "open"
                     THEN <<Display(GetAckFrame)>>
                     ELSE <<>>]_vars

(***************************************************************************)
(* C21: the offset a replica reports.  In an event of the master that      *)
(* finds the replica Ready, or waiting for the snapshot with commands      *)
(* behind it, every frame the handler consumed adds its length to          *)
(* processed_bytes, and each REPLCONF ACK written carries processed_bytes  *)
(* as it was before the event plus the lengths of the frames of this read  *)
(* that precede the GETACK it answers, the GETACK itself not included.     *)
(***************************************************************************)
RECURSIVE SumLen(_, _)
SumLen(frames, n) == IF n = 0 THEN 0 ELSE Len(frames[n]) + SumLen(frames, n - 1)

AckOf(n) == Display(array_of_bulkstrings_from(<<W_REPLCONF, W_ACK, NatToString(n)>>))

C21_AckOffset ==
    [][(/\ ev'.kind = "master"
        /\ ev'.was \in {"Ready", "BeforeRdbFile"}
        /\ ev'.outcome = "ok")
       => /\ processed_bytes' = processed_bytes + SumLen(ev'.handled, Len(ev'.handled))
          /\ \A i \in 1..Len(ev'.wrote) :
                 ev'.handled[ev'.wrote[i].frame] = Display(GetAckFrame)
                 => ev'.wrote[i].bytes =
                        AckOf(processed_bytes + SumLen(ev'.handled, ev'.wrote[i].frame - 1))]_vars

(***************************************************************************)
(* C22: on a replica, processed_bytes never decreases, and a step that is  *)
(* not an event of the master's connection leaves it unchanged.            *)
(***************************************************************************)
C22_OnlyMasterCounts ==
    [][/\ processed_bytes' >= processed_bytes
       /\ ev'.kind # "master" => processed_bytes' = processed_bytes]_vars

(***************************************************************************)
(* C23: the snapshot of the handshake.  An event of the master that finds  *)
(* the replica in BeforePsync or BeforeRdbFile neither fails nor ends the  *)
(* process; when its read ends with the last byte of the snapshot or with  *)
(* a SET behind it, the replica is Ready after the event and the SET is in *)
(* its key space; when the read ends inside the snapshot the replica still *)
(* waits for the rest.                                                     *)
(***************************************************************************)
RECURSIVE Concat(_)
Concat(frames) == IF frames = <<>> THEN <<>> ELSE Head(frames) \o Concat(Tail(frames))

C23_SnapshotChunking ==
    [][(/\ ev'.kind = "master"
        /\ \/ ev'.was = "BeforePsync"
              /\ Concat(ev'.frames) \in {FullResyncLine, FullResyncLine \o SnapshotBytes}
           \/ ev'.was = "BeforeRdbFile"
              /\ Concat(ev'.frames) \in
                    {SnapshotBytes, SnapshotFirstPart,
                     SnapshotBytes \o Display(SetFrame(Key, <<"a">>))})
       => /\ exited' = "running"
          /\ ev'.outcome = "ok"
          /\ state'.name =
                IF Concat(ev'.frames) \in {FullResyncLine, SnapshotFirstPart}
                THEN "BeforeRdbFile" ELSE "Ready"
          /\ Concat(ev'.frames) = SnapshotBytes \o Display(SetFrame(Key, <<"a">>))
             => /\ Key \in DOMAIN store'
                /\ store'[Key].value = StringValue(<<"a">>)]_vars

(***************************************************************************)
(* C24: a SET whose bytes arrive in two reads.  The read that ends in the  *)
(* middle of the frame is no failure: nothing is written, the connection   *)
(* stays and the key space is unchanged; the next read of that connection, *)
(* which brings the rest of the frame, executes the SET once and answers   *)
(* +OK.                                                                    *)
(***************************************************************************)
C24_SplitFrame ==
    [][/\ (/\ ev'.kind = "client"
            /\ ev'.was = "Ready"
            /\ Concat(ev'.frames) = SetFirstPart)
           => /\ ev'.outcome = "ok"
              /\ ev'.wrote = <<>>
              /\ ev'.token \in connections'
              /\ store' = store
       /\ (/\ ev.kind = "client"
            /\ Concat(ev.frames) = SetFirstPart
            /\ ev'.kind = "client"
            /\ ev'.was = "Ready"
            /\ ev'.token = ev.token
            /\ Concat(ev'.frames) = SetSecondPart)
           => /\ ev'.outcome = "ok"
              /\ ev'.sets = <<SetBytes>>
              /\ [i \in 1..Len(ev'.wrote) |-> ev'.wrote[i].bytes] = <<<<"+", "O", "K">> \o CRLF>>
              /\ Key \in DOMAIN store'
              /\ store'[Key].value = StringValue(<<"a">>)]_vars

(***************************************************************************)
(* C25: when the peer closes a connection that has an open transaction,    *)
(* the step that removes the connection also removes the queue stored      *)
(* under its token, and executes nothing: the key space is unchanged.      *)
(***************************************************************************)
C25_CloseDropsQueue ==
    [][(/\ ev'.kind = "client"
        /\ ev'.in_transaction
        /\ ev'.frames = <<>>
        /\ ev'.token \notin connections')
       => /\ ev'.token \notin DOMAIN ongoing_transacations'
          /\ store' = store]_vars

(***************************************************************************)
(* C26: a range query on a stream succeeds and returns, in the order of    *)
(* the stream, exactly the entries whose id lies between the two bounds,   *)
(* both included, where "-" stands for the least id and "+" for an id      *)
(* above every entry, in either position; the result is empty when no      *)
(* entry lies between them.                                                *)
(***************************************************************************)
IdOfSpec(txt) == CHOOSE id \in RangeIds : IdToString(id) = txt

AtLeast(txt, id) ==
    IF txt = <<"-">> THEN TRUE ELSE IF txt = <<"+">> THEN FALSE ELSE IdLessEq(IdOfSpec(txt), id)

AtMost(txt, id) ==
    IF txt = <<"+">> THEN TRUE ELSE IF txt = <<"-">> THEN IdLessEq(id, StreamId(0, 0))
    ELSE IdLessEq(id, IdOfSpec(txt))

C26_Range ==
    xadded.op = "Stream::xrange" =>
        /\ xadded.res.ok
        /\ xadded.res.items =
              [k \in 1..Len(SelectSeq(stream, LAMBDA x : /\ AtLeast(xadded.start, x.stream_id)
                                                         /\ AtMost(xadded.end, x.stream_id))) |->
                  <<IdToString(SelectSeq(stream, LAMBDA x : /\ AtLeast(xadded.start, x.stream_id)
                                                            /\ AtMost(xadded.end, x.stream_id))[k].stream_id),
                    SelectSeq(stream, LAMBDA x : /\ AtLeast(xadded.start, x.stream_id)
                                                 /\ AtMost(xadded.end, x.stream_id))[k].store>>]

(***************************************************************************)
(* C27: XRANGE - + answers, for every entry of the stream in order, the    *)
(* pair of the entry's id and the array of bulk strings f1, v1, ..., fn,   *)
(* vn that the XADD of that entry gave, in the order given and each value  *)
(* unchanged.                                                              *)
(***************************************************************************)
C27_FieldOrder ==
    answer.op = "XRANGE" =>
        /\ answer.reply.kind = "ok"
        /\ answer.reply.val =
              Array(Len(EntriesOf(store, Key)),
                    [i \in 1..Len(EntriesOf(store, Key)) |->
                        Array(2, <<bulkstring_from(IdToString(EntriesOf(store, Key)[i].stream_id)),
                                   array_of_bulkstrings_from(
                                       written[IdToString(EntriesOf(store, Key)[i].stream_id)])>>)])

(***************************************************************************)
(* C28: KEYS * answers an Array with exactly one bulk string per key that  *)
(* is stored and not expired at that moment, each bulk string equal to its *)
(* key, keys containing a space included.                                  *)
(***************************************************************************)
LiveKeys(st, now) == {k \in DOMAIN st : ~is_expired(st[k], now)}

C28_Keys ==
    answer.op = "KEYS" =>
        /\ answer.reply.kind = "ok"
        /\ answer.reply.val.t = "Array"
        /\ answer.reply.val.n = Cardinality(LiveKeys(answer.before, answer.at))
        /\ Len(answer.reply.val.items) = answer.reply.val.n
        /\ {answer.reply.val.items[i] : i \in 1..Len(answer.reply.val.items)}
              = {bulkstring_from(k) : k \in LiveKeys(answer.before, answer.at)}

(***************************************************************************)
(* C29: a step in which a client whose socket works sends SET in state     *)
(* Ready outside a transaction writes the SET once to every registered     *)
(* replica whose socket works, whatever the sockets of the other replicas  *)
(* do, writes +OK to the client, and leaves the client's connection open.  *)
(***************************************************************************)
C29_ForwardFailure ==
    [][(/\ ev'.kind = "client"
        /\ ev'.was = "Ready"
        /\ ~ev'.in_transaction
        /\ sock[ev'.token] = "open"
        /\ ev'.frames = <<Display(SetFrame(Key, <<"a">>))>>)
       => /\ \A i \in 1..Len(replicas) :
                 sock[replicas[i].token] = "open"
                 => ev'.sent[replicas[i].token] = <<Display(SetFrame(Key, <<"a">>))>>
          /\ ev'.wrote = <<[frame |-> 1, bytes |-> Display(SimpleString(W_OK))]>>
          /\ ev'.token \in connections'
          /\ sock'[ev'.token] = "open"]_vars

(***************************************************************************)
(* C30: an event of the master that finds the replica in a handshake state *)
(* with a working socket and reads one frame moves the replica to the next *)
(* state if the frame is the reply expected in that state (+PONG in        *)
(* BeforePing, +OK in BeforeReplConf1 and BeforeReplConf2, +FULLRESYNC ... *)
(* in BeforePsync); on any other frame the state stays as it is and        *)
(* nothing is written to the master.                                       *)
(***************************************************************************)
ExpectedReply(name) ==
    CASE name = "BeforePing" -> PongLine
      [] name = "BeforeReplConf1" -> OkLine
      [] name = "BeforeReplConf2" -> OkLine
      [] name = "BeforePsync" -> FullResyncLine

StateAfter(name) ==
    CASE name = "BeforePing" -> "BeforeReplConf1"
      [] name = "BeforeReplConf1" -> "BeforeReplConf2"
      [] name = "BeforeReplConf2" -> "BeforePsync"
      [] name = "BeforePsync" -> "BeforeRdbFile"

C30_Handshake ==
    [][(/\ ev'.kind = "master"
        /\ ev'.was \in {"BeforePing", "BeforeReplConf1", "BeforeReplConf2", "BeforePsync"}
        /\ sock[MASTER] = "open"
        /\ Concat(ev'.frames) \in {PongLine, OkLine, FullResyncLine}
                                  \cup {Display(f) : f \in MasterFrames})
       => IF Concat(ev'.frames) = ExpectedReply(ev'.was)
          THEN state'.name = StateAfter(ev'.was)
          ELSE state' = state /\ to_master' = to_master]_vars

(***************************************************************************)
(* C31: XADD with the id "*" on a stream that has a last entry answers the *)
(* id whose timestamp is the larger of the clock and the last timestamp,   *)
(* and whose sequence number is the last sequence number plus one when     *)
(* that timestamp is the last timestamp, and 0 otherwise.                  *)
(***************************************************************************)
Max(a, b) == IF a >= b THEN a ELSE b

StarId(last, now) ==
    StreamId(Max(now, last.timestamp_ms),
             IF Max(now, last.timestamp_ms) = last.timestamp_ms THEN last.seq_number + 1 ELSE 0)

C31_StarId ==
    (/\ answer.op = "XADD"
     /\ answer.arg = <<"*">>
     /\ EntriesOf(answer.before, "k1") # <<>>)
    => /\ answer.reply.kind = "ok"
       /\ answer.reply.val =
             bulkstring_from(IdToString(StarId(get_last_stream_id(EntriesOf(answer.before, "k1")),
                                               answer.at)))

(***************************************************************************)
(* C32: a step in which EXEC, received in state Ready from a client whose  *)
(* socket works, executes a queue that holds a SET leaves every replica    *)
(* not up to date and has written that SET to every replica whose socket   *)
(* works, as a SET outside a transaction does.                             *)
(***************************************************************************)
C32_ExecForwards ==
    [][(/\ ev'.kind = "client"
        /\ ev'.was = "Ready"
        /\ ev'.in_transaction
        /\ sock[ev'.token] = "open"
        /\ ev'.frames = <<Display(ExecFrame)>>
        /\ \E q \in 1..Len(ev'.queue) : ev'.queue[q].command.name = "Set"
        /\ \A i \in 1..Len(replicas) : sock[replicas[i].token] = "open")
       => /\ \A i \in 1..Len(replicas') : ~replicas'[i].up_to_date
          /\ \A i \in 1..Len(replicas) :
                 ev'.sent[replicas[i].token] = <<Display(SetFrame(Key, <<"a">>))>>]_vars

(***************************************************************************)
(* C33: the tokens handed out.  An accepted connection gets the value of   *)
(* the client counter, which is at least 20 and grows by one; a registered *)
(* replica gets the value of the replica counter, which lies in 2..19 and  *)
(* grows by one; no counter ever goes back, so no token is handed out      *)
(* twice.  While the process runs, a socket's token is below 20 exactly if *)
(* it is the token of a registered replica, and a new connection's token   *)
(* is that of no connection, replica or transaction queue before it.       *)
(***************************************************************************)
ReplicaTokens(reps) == {reps[i].token : i \in 1..Len(reps)}

C33_Tokens ==
    [][/\ token_track'.unique_token >= token_track.unique_token
       /\ token_track'.replica_token >= token_track.replica_token
       /\ ev'.kind = "accept"
          => /\ ev'.token = token_track.unique_token
             /\ ev'.token >= FIRST_UNIQUE_TOKEN
             /\ token_track'.unique_token = ev'.token + 1
             /\ ev'.token \notin connections \cup ReplicaTokens(replicas)
                                \cup DOMAIN ongoing_transacations \cup DOMAIN sock
             /\ ev'.token \in connections'
       /\ (Len(replicas') > Len(replicas) /\ exited' = "running")
          => /\ replicas'[Len(replicas')].token = token_track.replica_token
             /\ replicas'[Len(replicas')].token \in FIRST_REPLICA_TOKEN..(FIRST_UNIQUE_TOKEN - 1)
             /\ token_track'.replica_token = token_track.replica_token + 1
             /\ replicas'[Len(replicas')].token \notin ReplicaTokens(replicas) \cup DOMAIN sock
       /\ exited' = "running"
          => \A t \in DOMAIN sock' : t < FIRST_UNIQUE_TOKEN <=> t \in ReplicaTokens(replicas')]_vars

C33_Witness ==
    /\ exited = "running"
    /\ Len(replicas) = FIRST_UNIQUE_TOKEN - FIRST_REPLICA_TOKEN
    /\ connections # {}

(***************************************************************************)
(* C34: a length read from a first byte with top bits 00 is the low six    *)
(* bits of that byte; with top bits 01 it is the 14-bit number             *)
(* ((first byte & 0x3F) << 8) | next byte; with top bits 10 it is the next *)
(* byte.                                                                   *)
(***************************************************************************)
C34_Length ==
    parsed.of = "LengthEncoding" =>
        CASE rv[1] \div 64 = 0 -> parsed.res = LengthOk(BitAnd(rv[1], 63), 1)
          [] rv[1] \div 64 = 1 -> parsed.res = LengthOk(BitOr(BitAnd(rv[1], 63) * 256, rv[2]), 2)
          [] rv[1] \div 64 = 2 -> parsed.res = LengthOk(rv[2], 2)
          [] OTHER -> TRUE

(***************************************************************************)
(* C35: once the replica has loaded the snapshot and is Ready, every key   *)
(* the master held when it answered the PSYNC is readable on the replica   *)
(* with the value it had on the master.                                    *)
(***************************************************************************)
C35_SnapshotContent ==
    (answer.op = "Ready" /\ answer.inbox = <<>>) =>
        \A k \in DOMAIN answer.master_store :
            db_get(answer.store, k, instant).val = db_get(answer.master_store, k, instant).val

(***************************************************************************)
(* C36: the bytes a client has sent are read by the server in the end,     *)
(* also when they arrive while another client's WAIT is pending; and a     *)
(* read by the handler answers every command it consumed.                  *)
(***************************************************************************)
PendingTokens == FIRST_UNIQUE_TOKEN..(FIRST_UNIQUE_TOKEN + MaxPendingClients - 1)

C36_NotLost ==
    \A token \in PendingTokens :
        (token \in connections /\ Unread(token) # <<>>)
            ~> (token \notin connections \/ Unread(token) = <<>>)

(***************************************************************************)
(* C37: the step at the end of an iteration that answers a pending WAIT    *)
(* writes an integer that is not larger than the number of registered      *)
(* replicas.                                                               *)
(***************************************************************************)
C37_WaitCount ==
    [][(ev'.kind = "end" /\ state.name = "Waiting" /\ ev'.wrote # <<>>)
       => \E n \in 0..Len(replicas) :
              ev'.wrote = <<[frame |-> 0, bytes |-> Display(Integer(n))]>>]_vars

(***************************************************************************)
(* C38: an event of a client whose peer has closed the connection, with or *)
(* without bytes before the end of the stream, handles every frame of the  *)
(* read and ends with the connection taken out of the loop's connections.  *)
(***************************************************************************)
C38_ClosedIsDone ==
    [][(ev'.kind = "client" /\ ev'.token \in written.closed)
       => /\ ev'.handled = ev'.frames
          /\ ev'.token \notin connections']_vars

(***************************************************************************)
(* C39: an XADD that is rejected, by an error reply or by a failure of the *)
(* command, leaves the key space as it was before the command; a key that  *)
(* did not exist still does not exist.                                     *)
(***************************************************************************)
C39_RejectedXadd ==
    (/\ answer.op = "XADD"
     /\ \/ answer.reply.kind # "ok"
        \/ answer.reply.val.t = "SimpleError")
    => store = answer.before

(***************************************************************************)
(* C40: an INCR on a key that is still stored but whose deadline has       *)
(* passed answers 1 and stores "1" without a deadline, as on an absent     *)
(* key.                                                                    *)
(***************************************************************************)
C40_IncrExpired ==
    [][(/\ answer'.op = "incr"
        /\ instant' = instant
        /\ answer'.key \in DOMAIN store
        /\ is_expired(store[answer'.key], instant))
       => /\ answer'.val = SomeValue(StringValue(<<"1">>))
          /\ store'[answer'.key] = DbValue(StringValue(<<"1">>), NoInstant)]_vars

====
